---------------------------- MODULE Spec2Model ----------------------------
(***************************************************************************)
(* Model of itk::BlockMatchingImageFilter                                  *)
(* (Modules/Registration/Common/include/itkBlockMatchingImageFilter.hxx).  *)
(*                                                                         *)
(* The filter takes a fixed image, a moving image and a set of feature     *)
(* points.  GenerateData() validates the feature points and allocates two  *)
(* result arrays (BeforeThreadedGenerateData), runs ThreadedGenerateData   *)
(* once per work unit on a slice of the point indices, and finally copies  *)
(* the arrays into the two output point sets and releases them             *)
(* (AfterThreadedGenerateData).                                            *)
(*                                                                         *)
(* Conventions of the model:                                               *)
(*  - containers indexed 0..n-1 in the code are sequences here; slot i of  *)
(*    the code is element i+1 of the sequence (see At / Put);              *)
(*  - a smart pointer is a record [null, v]; v is the pointee;             *)
(*  - SimilaritiesValue is double: a record [sign, mant, exp], every      *)
(*    operation rounded to nearest even; pixel values are integers;        *)
(*  - images have unit spacing and identity direction, feature points have *)
(*    integer physical coordinates.                                        *)
(***************************************************************************)
EXTENDS Integers, Sequences, FiniteSets, TLC

(***************************************************************************)
(* Bounds of the model.                                                    *)
(***************************************************************************)
\* largest value SetNumberOfWorkUnits is called with
MaxWorkUnits == 3
\* largest number of feature points in the feature point set
MaxPoints == 3

(***************************************************************************)
(* Pointers and 0-based containers.                                        *)
(***************************************************************************)
NullPtr == [null |-> TRUE, v |-> <<>>]

Ptr(x) == [null |-> FALSE, v |-> x]

\* element i (0-based) of container c
At(c, i) == c[i + 1]

\* container c with element i (0-based) replaced by x
Put(c, i, x) == [c EXCEPT ![i + 1] = x]

\* a slot of an array obtained from make_unique_for_overwrite that was never
\* assigned: its value is indeterminate
Uninit == <<>>

(***************************************************************************)
(* SimilaritiesValue is double: IEEE-754 binary64, round to nearest, ties  *)
(* to even.  A double is [sign, mant, exp] and stands for                  *)
(* sign * mant * 2^exp, where sign is 1 or -1, exp is an integer and mant  *)
(* is a natural number below 2^MantissaBits that is odd or zero, written   *)
(* as its limbs: the digits to the base LimbBase, least significant first, *)
(* without leading zero limbs.  DoubleZero is [1, <<>>, 0].                *)
(***************************************************************************)
MantissaBits == 53

\* four limbs hold a mantissa, and the product of two limbs is a machine integer
LimbBits == (MantissaBits + 3) \div 4

LimbBase == 2 ^ LimbBits

Max(a, b) == IF a >= b THEN a ELSE b

Min(a, b) == IF a <= b THEN a ELSE b

\* the limbs of the machine integer n >= 0
RECURSIVE Limbs(_)
Limbs(n) == IF n = 0 THEN <<>> ELSE <<n % LimbBase>> \o Limbs(n \div LimbBase)

\* limb i of a, zero beyond its length
Limb(a, i) == IF i >= 1 /\ i <= Len(a) THEN a[i] ELSE 0

\* a without its leading zero limbs
RECURSIVE Trim(_)
Trim(a) ==
    IF a # <<>> /\ a[Len(a)] = 0 THEN Trim(SubSeq(a, 1, Len(a) - 1)) ELSE a

\* the limbs of the number whose digits from position i on are d[i], d[i+1],
\* ... plus carry at position i; a digit may be any machine integer
RECURSIVE Carry(_, _, _)
Carry(d, i, carry) ==
    IF i > Len(d) THEN Limbs(carry)
    ELSE <<(d[i] + carry) % LimbBase>> \o Carry(d, i + 1, (d[i] + carry) \div LimbBase)

NatAdd(a, b) ==
    Trim(Carry([i \in 1..Max(Len(a), Len(b)) |-> Limb(a, i) + Limb(b, i)], 1, 0))

\* a - b for a >= b
NatSub(a, b) ==
    Trim(Carry([i \in 1..Max(Len(a), Len(b)) |-> Limb(a, i) - Limb(b, i)], 1, 0))

\* a * d for one limb d
NatMulLimb(a, d) == Trim(Carry([i \in 1..Len(a) |-> a[i] * d], 1, 0))

\* the sum of a[j] * b[i + 1 - j] over j = lo .. hi
RECURSIVE Column(_, _, _, _, _)
Column(a, b, i, lo, hi) ==
    IF lo > hi THEN 0 ELSE Limb(a, lo) * Limb(b, i + 1 - lo) + Column(a, b, i, lo + 1, hi)

\* a * b for a and b of at most four limbs
NatMul(a, b) ==
    IF a = <<>> \/ b = <<>> THEN <<>>
    ELSE Trim(Carry([i \in 1..(Len(a) + Len(b) - 1) |-> Column(a, b, i, 1, Len(a))], 1, 0))

\* -1, 0 or 1 as a < b, a = b or a > b, decided from limb i downwards
RECURSIVE CompareFrom(_, _, _)
CompareFrom(a, b, i) ==
    IF i = 0 THEN 0
    ELSE IF a[i] < b[i] THEN -1
    ELSE IF a[i] > b[i] THEN 1
    ELSE CompareFrom(a, b, i - 1)

NatCompare(a, b) ==
    IF Len(a) < Len(b) THEN -1
    ELSE IF Len(a) > Len(b) THEN 1
    ELSE CompareFrom(a, b, Len(a))

\* a * 2^s
NatShiftLeft(a, s) ==
    IF s = 0 THEN a
    ELSE Trim([i \in 1..(s \div LimbBits) |-> 0] \o
              Carry([i \in 1..Len(a) |-> a[i] * 2 ^ (s % LimbBits)], 1, 0))

\* a \div 2^s
NatShiftRight(a, s) ==
    LET skip == s \div LimbBits
        r == s % LimbBits
    IN  IF s = 0 THEN a
        ELSE
        Trim([i \in 1..Max(0, Len(a) - skip) |->
                 (Limb(a, i + skip) \div 2 ^ r) +
                 (Limb(a, i + skip + 1) % 2 ^ r) * 2 ^ (LimbBits - r)])

\* the number of bits of the machine integer n >= 0
RECURSIVE BitLengthOfLimb(_)
BitLengthOfLimb(n) == IF n = 0 THEN 0 ELSE 1 + BitLengthOfLimb(n \div 2)

\* the number of bits of a
NatBitLength(a) ==
    IF a = <<>> THEN 0 ELSE (Len(a) - 1) * LimbBits + BitLengthOfLimb(a[Len(a)])

\* bit i of a, bit 0 the least significant
NatBit(a, i) == (Limb(a, i \div LimbBits + 1) \div 2 ^ (i % LimbBits)) % 2

\* the s least significant bits of a are all zero
NatLowBitsZero(a, s) ==
    /\ \A i \in 1..(s \div LimbBits) : Limb(a, i) = 0
    /\ Limb(a, s \div LimbBits + 1) % 2 ^ (s % LimbBits) = 0

\* the number of zero bits below the least significant one bit of the
\* machine integer n > 0
RECURSIVE TrailingZerosOfLimb(_)
TrailingZerosOfLimb(n) == IF n % 2 = 1 THEN 0 ELSE 1 + TrailingZerosOfLimb(n \div 2)

\* the same for a # 0, counted from limb i on
RECURSIVE NatTrailingZeros(_, _)
NatTrailingZeros(a, i) ==
    IF a[i] = 0 THEN LimbBits + NatTrailingZeros(a, i + 1) ELSE TrailingZerosOfLimb(a[i])

\* one step of the long division by b: r is the remainder of the steps so
\* far with the next limb of the dividend brought down; the quotient limb is
\* the greatest q <= estimate with b * q <= r
RECURSIVE DivisionStep(_, _, _, _)
DivisionStep(b, r, estimate, quotient) ==
    IF NatCompare(NatMulLimb(b, estimate), r) > 0
    THEN DivisionStep(b, r, estimate - 1, quotient)
    ELSE [quotient |-> <<estimate>> \o quotient,
          remainder |-> NatSub(r, NatMulLimb(b, estimate))]

\* the quotient limb of r by b or a little more, from the leading limbs
QuotientEstimate(b, r) ==
    Min(LimbBase - 1, (Limb(r, Len(b) + 1) * LimbBase + Limb(r, Len(b))) \div b[Len(b)])

\* the steps of the long division of a by b for the limbs hi down to lo of
\* a, entered with the quotient limbs and the remainder sofar
RECURSIVE LongDivision(_, _, _, _, _)
LongDivision(a, b, lo, hi, sofar) ==
    IF lo > hi THEN sofar
    ELSE IF lo = hi
    THEN DivisionStep(b, Trim(<<Limb(a, lo)>> \o sofar.remainder),
                      QuotientEstimate(b, Trim(<<Limb(a, lo)>> \o sofar.remainder)),
                      sofar.quotient)
    ELSE LET mid == (lo + hi + 1) \div 2
             upper == LongDivision(a, b, mid, hi, sofar)
         IN  \* the test has the steps for the limbs hi .. mid evaluated first
             IF upper = upper THEN LongDivision(a, b, lo, mid - 1, upper) ELSE upper

\* the quotient of a finished long division, and whether it left no remainder
QuotientOf(result) ==
    [quotient |-> Trim(result.quotient), exact |-> result.remainder = <<>>]

\* a \div b for b # 0, and whether the division leaves no remainder; both are
\* first scaled so that the leading limb of b has its top bit set
NatDivide(a, b) ==
    QuotientOf(LongDivision(NatShiftLeft(a, LimbBits - BitLengthOfLimb(b[Len(b)])),
                            NatShiftLeft(b, LimbBits - BitLengthOfLimb(b[Len(b)])),
                            1, Len(a) + 1, [quotient |-> <<>>, remainder |-> <<>>]))

DoubleZero == [sign |-> 1, mant |-> <<>>, exp |-> 0]

DoubleOne == [sign |-> 1, mant |-> <<1>>, exp |-> 0]

\* the number of bits that m has more than a double holds
ExcessBits(m) == Max(0, NatBitLength(m) - MantissaBits)

\* q = m \div 2^s, plus one when the s bits dropped are more than half of
\* the last place, or are half of it and q is odd
RoundedQuotient(m, s, q) ==
    IF /\ s > 0
       /\ NatBit(m, s - 1) = 1
       /\ ~NatLowBitsZero(m, s - 1) \/ NatBit(q, 0) = 1
    THEN NatAdd(q, <<1>>)
    ELSE q

\* sign * r * 2^e for r # 0 with the mantissa made odd
Odd(sign, r, e) ==
    [sign |-> sign, mant |-> NatShiftRight(r, NatTrailingZeros(r, 1)),
     exp |-> e + NatTrailingZeros(r, 1)]

\* the double nearest to sign * m * 2^e, the even one of two nearest
RoundToDouble(sign, m, e) ==
    IF m = <<>> THEN DoubleZero
    ELSE Odd(sign, RoundedQuotient(m, ExcessBits(m), NatShiftRight(m, ExcessBits(m))),
             e + ExcessBits(m))

\* the conversion of the machine integer n to double; it is exact, a machine
\* integer having fewer than MantissaBits bits
ToDouble(n) ==
    IF n = 0 THEN DoubleZero
    ELSE LET a == IF n < 0 THEN -n ELSE n
             z == TrailingZerosOfLimb(a)
         IN  [sign |-> IF n < 0 THEN -1 ELSE 1, mant |-> Limbs(a \div 2 ^ z), exp |-> z]

DoubleNegate(x) == IF x.mant = <<>> THEN x ELSE [x EXCEPT !.sign = -x.sign]

\* x * y
DoubleMultiply(x, y) ==
    RoundToDouble(x.sign * y.sign, NatMul(x.mant, y.mant), x.exp + y.exp)

\* x + y for x and y not zero, mx * 2^e and my * 2^e being their magnitudes
AddAligned(x, y, mx, my, e) ==
    RoundToDouble(IF x.sign = y.sign \/ NatCompare(mx, my) >= 0 THEN x.sign ELSE y.sign,
                  IF x.sign = y.sign THEN NatAdd(mx, my)
                  ELSE IF NatCompare(mx, my) >= 0 THEN NatSub(mx, my)
                  ELSE NatSub(my, mx),
                  e)

\* x + y
DoubleAdd(x, y) ==
    IF x.mant = <<>> THEN y
    ELSE IF y.mant = <<>> THEN x
    ELSE AddAligned(x, y, NatShiftLeft(x.mant, x.exp - Min(x.exp, y.exp)),
                    NatShiftLeft(y.mant, y.exp - Min(x.exp, y.exp)), Min(x.exp, y.exp))

\* x - y
DoubleSubtract(x, y) == DoubleAdd(x, DoubleNegate(y))

\* the double nearest to sign * d * 2^e, where d.quotient is the whole part
\* of d and a last bit is added to it for what d has more
RoundQuotient(sign, d, e) ==
    RoundToDouble(sign,
                  IF d.exact THEN d.quotient ELSE NatAdd(NatShiftLeft(d.quotient, 1), <<1>>),
                  IF d.exact THEN e ELSE e - 1)

\* the scale at which the quotient of the mantissas has two bits more than a
\* double holds
QuotientScale(x, y) ==
    Max(0, MantissaBits + 2 + NatBitLength(y.mant) - NatBitLength(x.mant))

\* x / y for y # 0
DoubleDivide(x, y) ==
    IF x.mant = <<>> THEN DoubleZero
    ELSE RoundQuotient(x.sign * y.sign,
                       NatDivide(NatShiftLeft(x.mant, QuotientScale(x, y)), y.mant),
                       x.exp - y.exp - QuotientScale(x, y))

\* x < y
DoubleLess(x, y) ==
    IF x.mant = <<>> THEN y.mant # <<>> /\ y.sign = 1
    ELSE IF y.mant = <<>> THEN x.sign = -1
    ELSE IF x.sign # y.sign THEN x.sign = -1
    ELSE x.sign * NatCompare(NatShiftLeft(x.mant, x.exp - Min(x.exp, y.exp)),
                             NatShiftLeft(y.mant, y.exp - Min(x.exp, y.exp))) < 0

\* x >= y
DoubleGeq(x, y) == ~DoubleLess(x, y)

\* values an indeterminate displacement / similarity may be read as, besides
\* what its storage held before: a displacement has one component per axis
IndeterminateVectors(dimension) == { [a \in 1..dimension |-> c] : c \in {0, 9} }

IndeterminateValues == {DoubleZero, ToDouble(9)}

(***************************************************************************)
(* Images.  An image is [origin, size, pix]: the physical coordinates of   *)
(* its index 0, the size of its region per axis and its pixels in raster   *)
(* order (axis 1 of the model, axis 0 of the code, varies fastest).  The   *)
(* image dimension is the number of axes of its size.                      *)
(***************************************************************************)
\* the axes of an index, a size or a point
AxesOf(v) == 1..Len(v)

\* the number of indices raster order passes to advance axis a by one:
\* the product of the sizes of the axes before a
RECURSIVE Stride(_, _)
Stride(size, a) == IF a <= 1 THEN 1 ELSE Stride(size, a - 1) * size[a - 1]

\* the number of indices of a box of the given size
NumberOfIndices(size) == Stride(size, Len(size) + 1)

\* image->TransformPhysicalPointToIndex(point)
TransformPhysicalPointToIndex(image, point) ==
    [a \in AxesOf(point) |-> point[a] - image.origin[a]]

\* image->TransformIndexToPhysicalPoint(index, point)
TransformIndexToPhysicalPoint(image, index) ==
    [a \in AxesOf(index) |-> index[a] + image.origin[a]]

\* the position in raster order of an index inside a box of the given size
\* that starts at index 0, counting the axes up to a
RECURSIVE RasterOffset(_, _, _)
RasterOffset(size, index, a) ==
    IF a < 1 THEN 0
    ELSE RasterOffset(size, index, a - 1) + index[a] * Stride(size, a)

\* the pixel of the image at an index; an index outside the region reads
\* the nearest pixel inside it (the iterators' default boundary condition)
PixelAt(image, index) ==
    LET inside == [a \in AxesOf(index) |->
                     IF index[a] < 0 THEN 0
                     ELSE IF index[a] > image.size[a] - 1 THEN image.size[a] - 1
                     ELSE index[a]]
    IN  At(image.pix, RasterOffset(image.size, inside, Len(index)))

\* BoxSize one voxel too wide per axis
BoxSizeOneMore(radius) == [a \in AxesOf(radius) |-> radius[a] + 1 + radius[a] + 1]

\* the size of a box of the given radius: 1 + 2 * radius per axis
BoxSize(radius) == [a \in AxesOf(radius) |-> radius[a] + 1 + radius[a]]

\* the k-th index, in raster order, of the box that starts at index start
\* and has the given size
RasterIndex(start, size, k) ==
    [a \in AxesOf(size) |-> start[a] + ((k \div Stride(size, a)) % size[a])]

\* ConstNeighborhoodIterator::GetPixel(i): pixel i of the neighbourhood of
\* the given radius around the iterator's current index
GetPixel(image, centre, radius, i) ==
    PixelAt(image,
            RasterIndex([a \in AxesOf(centre) |-> centre[a] - radius[a]],
                        BoxSize(radius), i))

(***************************************************************************)
(* ThreadedGenerateData: the partition of the points among the work units. *)
(***************************************************************************)
\* number of points every work unit but the last one processes
BaseCount(pointsCount, workUnitCount) == pointsCount \div workUnitCount

\* index of the first point of work unit threadId
First(threadId, pointsCount, workUnitCount) ==
    threadId * BaseCount(pointsCount, workUnitCount)

\* Count with the remainder given to the first work unit instead of the last
CountRemainderFirst(threadId, pointsCount, workUnitCount) ==
    IF threadId = 0
    THEN BaseCount(pointsCount, workUnitCount) + (pointsCount % workUnitCount)
    ELSE BaseCount(pointsCount, workUnitCount)

\* Count with the last work unit recognised one threadId too late, so that
\* no work unit takes the remainder
CountLastUnitMissed(threadId, pointsCount, workUnitCount) ==
    IF threadId = workUnitCount
    THEN BaseCount(pointsCount, workUnitCount) + (pointsCount % workUnitCount)
    ELSE BaseCount(pointsCount, workUnitCount)

\* number of points of work unit threadId: the last one takes the remainder
Count(threadId, pointsCount, workUnitCount) ==
    IF threadId + 1 = workUnitCount
    THEN BaseCount(pointsCount, workUnitCount) + (pointsCount % workUnitCount)
    ELSE BaseCount(pointsCount, workUnitCount)

\* Last with the count of a work unit forced to at least one point
LastAtLeastOne(threadId, pointsCount, workUnitCount) ==
    First(threadId, pointsCount, workUnitCount)
      + (IF Count(threadId, pointsCount, workUnitCount) < 1
         THEN 1 ELSE Count(threadId, pointsCount, workUnitCount))

\* one past the last point of work unit threadId
Last(threadId, pointsCount, workUnitCount) ==
    First(threadId, pointsCount, workUnitCount)
      + Count(threadId, pointsCount, workUnitCount)

\* the point indices [first, last) of work unit threadId
Range(threadId, pointsCount, workUnitCount) ==
    { i \in 0..(pointsCount - 1) :
        /\ First(threadId, pointsCount, workUnitCount) <= i
        /\ i < Last(threadId, pointsCount, workUnitCount) }

(***************************************************************************)
(* ThreadedGenerateData: the search of one feature point.                  *)
(***************************************************************************)
\* numberOfVoxelInBlock
NumberOfVoxelInBlock(blockRadius) == NumberOfIndices(BoxSize(blockRadius))

\* the five sums before the loop over the voxels of the block
NoSums ==
    [movingSum |-> DoubleZero, fixedSum |-> DoubleZero,
     movingSumOfSquares |-> DoubleZero, fixedSumOfSquares |-> DoubleZero,
     covariance |-> DoubleZero]

\* AddVoxel with the fixed image read at the point's own index and the moving
\* image read at the window iterator's index
AddVoxelBlocksSwapped(fixed, moving, windowIndex, movingIndex, blockRadius, i, acc) ==
    LET fixedValue == ToDouble(GetPixel(fixed, movingIndex, blockRadius, i))
        movingValue == ToDouble(GetPixel(moving, windowIndex, blockRadius, i))
    IN  [movingSum |-> DoubleAdd(acc.movingSum, movingValue),
         fixedSum |-> DoubleAdd(acc.fixedSum, fixedValue),
         movingSumOfSquares |->
             DoubleAdd(acc.movingSumOfSquares, DoubleMultiply(movingValue, movingValue)),
         fixedSumOfSquares |->
             DoubleAdd(acc.fixedSumOfSquares, DoubleMultiply(fixedValue, fixedValue)),
         covariance |-> DoubleAdd(acc.covariance, DoubleMultiply(fixedValue, movingValue))]

\* one iteration of the loop over the voxels of the block: voxel i
AddVoxel(fixed, moving, windowIndex, movingIndex, blockRadius, i, acc) ==
    LET fixedValue == ToDouble(GetPixel(fixed, windowIndex, blockRadius, i))
        movingValue == ToDouble(GetPixel(moving, movingIndex, blockRadius, i))
    IN  [movingSum |-> DoubleAdd(acc.movingSum, movingValue),
         fixedSum |-> DoubleAdd(acc.fixedSum, fixedValue),
         movingSumOfSquares |->
             DoubleAdd(acc.movingSumOfSquares, DoubleMultiply(movingValue, movingValue)),
         fixedSumOfSquares |->
             DoubleAdd(acc.fixedSumOfSquares, DoubleMultiply(fixedValue, fixedValue)),
         covariance |-> DoubleAdd(acc.covariance, DoubleMultiply(fixedValue, movingValue))]

\* the iterations lo .. hi-1 of the loop over the voxels of the block, in
\* order, entered with the sums acc
RECURSIVE BlockSums(_, _, _, _, _, _, _, _)
BlockSums(fixed, moving, windowIndex, movingIndex, blockRadius, lo, hi, acc) ==
    IF lo >= hi THEN acc
    ELSE IF hi = lo + 1
    THEN AddVoxel(fixed, moving, windowIndex, movingIndex, blockRadius,
                  lo, acc)
    ELSE LET mid == (lo + hi) \div 2
             sofar == BlockSums(fixed, moving, windowIndex, movingIndex,
                                blockRadius, lo, mid, acc)
         IN  \* the test has the iterations lo .. mid-1 evaluated first
             IF sofar = sofar
             THEN BlockSums(fixed, moving, windowIndex, movingIndex,
                            blockRadius, mid, hi, sofar)
             ELSE sofar

\* sim from the two variances and the covariance
SimOfMoments(fixedVariance, movingVariance, covariance) ==
    \* the first tests have the three evaluated in the order of the code
    IF /\ fixedVariance = fixedVariance
       /\ movingVariance = movingVariance
       /\ covariance = covariance
       /\ DoubleMultiply(fixedVariance, movingVariance) # DoubleZero
    THEN DoubleDivide(DoubleMultiply(covariance, covariance),
                      DoubleMultiply(fixedVariance, movingVariance))
    ELSE DoubleZero

\* sum - numberOfVoxelInBlock * meanA * meanB
Centred(sum, n, meanA, meanB) ==
    DoubleSubtract(sum, DoubleMultiply(DoubleMultiply(n, meanA), meanB))

\* SimOfMeans without the statement covariance -= numberOfVoxelInBlock *
\* fixedMean * movingMean
SimOfMeansCovarianceNotCentred(sums, n, fixedMean, movingMean) ==
    SimOfMoments(Centred(sums.fixedSumOfSquares, n, fixedMean, fixedMean),
                 Centred(sums.movingSumOfSquares, n, movingMean, movingMean),
                 sums.covariance)

\* the statements after the two means: the variances, the covariance and
\* sim; n is numberOfVoxelInBlock converted to double
SimOfMeans(sums, n, fixedMean, movingMean) ==
    SimOfMoments(Centred(sums.fixedSumOfSquares, n, fixedMean, fixedMean),
                 Centred(sums.movingSumOfSquares, n, movingMean, movingMean),
                 Centred(sums.covariance, n, fixedMean, movingMean))

\* the statements after the loop over the voxels of the block: sim from the
\* five sums
SimOfSums(sums, numberOfVoxelInBlock) ==
    \* the test has the loop over the voxels evaluated first
    IF sums = sums
    THEN SimOfMeans(sums, ToDouble(numberOfVoxelInBlock),
                    DoubleDivide(sums.fixedSum, ToDouble(numberOfVoxelInBlock)),
                    DoubleDivide(sums.movingSum, ToDouble(numberOfVoxelInBlock)))
    ELSE DoubleZero

\* sim of one candidate: the block of the fixed image around windowIndex
\* against the block of the moving image around movingIndex
Sim(fixed, moving, windowIndex, movingIndex, blockRadius) ==
    SimOfSums(BlockSums(fixed, moving, windowIndex, movingIndex, blockRadius,
                        0, NumberOfVoxelInBlock(blockRadius), NoSums),
              NumberOfVoxelInBlock(blockRadius))

\* Accept with the test sim > similarity
AcceptStrict(sim, displacement, best) ==
    IF DoubleLess(best.similarity, sim)
    THEN [displacement |-> displacement, similarity |-> sim]
    ELSE best

\* the test sim >= similarity and what it guards: the candidate's
\* displacement and sim replace best, which is [displacement, similarity]
Accept(sim, displacement, best) ==
    IF DoubleGeq(sim, best.similarity)
    THEN [displacement |-> displacement, similarity |-> sim]
    ELSE best

\* newLocation - originalLocation for the neighbourhood at windowIndex
DisplacementTo(fixed, windowIndex, originalLocation) ==
    LET newLocation == TransformIndexToPhysicalPoint(fixed, windowIndex)
    IN  [a \in AxesOf(originalLocation) |-> newLocation[a] - originalLocation[a]]

\* one iteration of the loop over the neighbourhoods of the window: the
\* k-th neighbourhood; best is [displacement, similarity] so far
TryCandidate(fixed, moving, originalLocation, blockRadius, start, windowSize, k, best) ==
    LET windowIndex == RasterIndex(start, windowSize, k)
        movingIndex == TransformPhysicalPointToIndex(moving, originalLocation)
    IN  Accept(Sim(fixed, moving, windowIndex, movingIndex, blockRadius),
               DisplacementTo(fixed, windowIndex, originalLocation), best)

\* the iterations lo .. hi-1 of the loop over the neighbourhoods of the
\* window, in order, entered with best
RECURSIVE WindowLoop(_, _, _, _, _, _, _, _, _)
WindowLoop(fixed, moving, originalLocation, blockRadius, start, windowSize, lo, hi, best) ==
    IF lo >= hi THEN best
    ELSE IF hi = lo + 1
    THEN TryCandidate(fixed, moving, originalLocation, blockRadius,
                      start, windowSize, lo, best)
    ELSE LET mid == (lo + hi) \div 2
             sofar == WindowLoop(fixed, moving, originalLocation,
                                 blockRadius, start, windowSize, lo, mid, best)
         IN  \* the test has the iterations lo .. mid-1 evaluated first
             IF sofar = sofar
             THEN WindowLoop(fixed, moving, originalLocation, blockRadius,
                             start, windowSize, mid, hi, sofar)
             ELSE sofar

\* the number of neighbourhoods of the window: the product of its size
NumberOfCandidates(searchRadius) == NumberOfIndices(BoxSize(searchRadius))

\* the body of the loop over the feature points, for the point at
\* originalLocation: the displacement and similarity stored for it
SearchWindow(fixed, moving, blockRadius, searchRadius, originalLocation) ==
    LET fixedIndex == TransformPhysicalPointToIndex(fixed, originalLocation)
        start == [a \in AxesOf(fixedIndex) |-> fixedIndex[a] - searchRadius[a]]
    IN  WindowLoop(fixed, moving, originalLocation, blockRadius, start,
                   BoxSize(searchRadius), 0, NumberOfCandidates(searchRadius),
                   [displacement |-> Uninit, similarity |-> DoubleZero])

(***************************************************************************)
(* Inputs the filter is run on.                                            *)
(***************************************************************************)
\* the dimension of the images the filter is run on
ImageDimension == 1

\* a linear ramp of 6 pixels, index 0 at physical 0
RampImage ==
    [origin |-> <<0>>, size |-> <<6>>, pix |-> <<0, 2, 4, 6, 8, 10>>]

\* 6 pixels that are no ramp, index 0 at physical 1
BumpImage ==
    [origin |-> <<1>>, size |-> <<6>>, pix |-> <<0, 1, 0, 2, 5, 1>>]

\* 6 bright pixels, index 0 at physical 1: the sums of their squares are
\* above 2^53
BrightBumpImage ==
    [origin |-> <<1>>, size |-> <<6>>,
     pix |-> [i \in 1..6 |-> 2^26 + <<1, 0, 1, 1, 0, 1>>[i]]]

\* the i-th feature point (0-based) of the point sets
PointAt(i) == <<1 + ((2 * i) % 5)>>

\* the point set of the first n points
PointSet(n) == [i \in 1..n |-> PointAt(i - 1)]

FeaturePointSets == { PointSet(n) : n \in 0..MaxPoints }

\* the radii SetBlockRadius / SetSearchRadius are called with
BlockRadii == {<<1>>}

SearchRadii == {<<1>>}

\* the radii of a filter as constructed
DefaultBlockRadius == [a \in 1..ImageDimension |-> 2]

DefaultSearchRadius == [a \in 1..ImageDimension |-> 3]

\* the inputs of SearchWindow that the images, radii and points above give
SearchWindowInputs ==
    {RampImage} \X {BumpImage, BrightBumpImage} \X (BlockRadii \cup {DefaultBlockRadius})
        \X (SearchRadii \cup {DefaultSearchRadius})
        \X { PointAt(i) : i \in 0..(MaxPoints - 1) }

\* SearchWindow on each of these inputs, evaluated once
SearchWindowTable ==
    { [input |-> in, found |-> SearchWindow(in[1], in[2], in[3], in[4], in[5])] :
          in \in SearchWindowInputs }

\* SearchWindow, taken from the table where the table has it
MatchPoint(fixed, moving, blockRadius, searchRadius, originalLocation) ==
    LET in == <<fixed, moving, blockRadius, searchRadius,
                originalLocation>>
    IN  IF in \in SearchWindowInputs
        THEN (CHOOSE entry \in SearchWindowTable : entry.input = in).found
        ELSE SearchWindow(fixed, moving, blockRadius, searchRadius,
                          originalLocation)

(***************************************************************************)
(* State.                                                                  *)
(***************************************************************************)
VARIABLES
    featurePoints,               \* input "FeaturePoints": pointer to a point sequence
    fixedImage,                  \* input "FixedImage": pointer to an image
    movingImage,                 \* input "MovingImage": pointer to an image
    m_BlockRadius,
    m_SearchRadius,
    numberOfWorkUnits,           \* GetNumberOfWorkUnits()
    m_PointsCount,
    m_DisplacementsVectorsArray, \* pointer to an array of displacement vectors
    m_SimilaritiesValuesArray,   \* pointer to an array of similarity values
    displacements,               \* output 0: [points, data]
    similarities,                \* output 1: [points, data]
    pc,                          \* where the calling thread is
    workUnits,                   \* the running ThreadedGenerateData calls, by threadId
    history,                     \* the phases of the current execution, in order
    writes,                      \* per array and slot: the threadIds that assigned it
    reads,                       \* the slots read so far: <<reader, array, slot>>
    staleDisplacements           \* what ended iterations left in the storage of their
                                 \* local displacement, since the process started

\* the state of a MeanSquaresImageToImageMetric, an object of its own
VARIABLES
    m_FixedImage,                \* the metric's fixed image: pointer
    m_NumberOfWorkUnits,
    m_PerThread,                 \* pointer to an array of [m_MSE, m_MSEDerivative]
    m_Transform,                 \* the parameters set in the transform
    m_NumberOfPixelsCounted,
    metricPc,                    \* the call to the metric that is under way
    chunks,                      \* per work unit: the samples it is given
    returned                     \* what the last call to the metric gave its caller

filterVars ==
    <<featurePoints, fixedImage, movingImage, m_BlockRadius, m_SearchRadius,
      numberOfWorkUnits, m_PointsCount, m_DisplacementsVectorsArray,
      m_SimilaritiesValuesArray, displacements, similarities, pc, workUnits,
      history, writes, reads, staleDisplacements>>

metricVars ==
    <<m_FixedImage, m_NumberOfWorkUnits, m_PerThread, m_Transform,
      m_NumberOfPixelsCounted, metricPc, chunks, returned>>

vars == <<filterVars, metricVars>>

\* a metric as constructed: no fixed image, Initialize not called
MetricConstructed ==
    /\ m_FixedImage = NullPtr
    /\ m_NumberOfWorkUnits = 1
    /\ m_PerThread = NullPtr
    /\ m_Transform = 0
    /\ m_NumberOfPixelsCounted = 0
    /\ metricPc = "Idle"
    /\ chunks = <<>>
    /\ returned = [call |-> "none"]

inputs == <<featurePoints, fixedImage, movingImage, m_BlockRadius, m_SearchRadius,
            numberOfWorkUnits>>

arrays == <<m_DisplacementsVectorsArray, m_SimilaritiesValuesArray>>

outputs == <<displacements, similarities>>

\* a point set without points: what MakeOutput creates
EmptyPointSet == [points |-> <<>>, data |-> <<>>]

\* RequiredInputNames without the AddRequiredInputName of the moving image
RequiredInputNamesFixedOnly == {"FixedImage"}

\* the inputs the constructor declares required by name
RequiredInputNames == {"FixedImage", "MovingImage"}

\* the pointer behind an input name
Input(name) ==
    CASE name = "FeaturePoints" -> featurePoints
      [] name = "FixedImage" -> fixedImage
      [] name = "MovingImage" -> movingImage

\* the constructor
Init ==
    /\ featurePoints = NullPtr
    /\ fixedImage = NullPtr
    /\ movingImage = NullPtr
    /\ m_BlockRadius = DefaultBlockRadius
    /\ m_SearchRadius = DefaultSearchRadius
    /\ numberOfWorkUnits \in 1..MaxWorkUnits
    /\ m_PointsCount = 0
    /\ m_DisplacementsVectorsArray = NullPtr
    /\ m_SimilaritiesValuesArray = NullPtr
    /\ displacements = EmptyPointSet
    /\ similarities = EmptyPointSet
    /\ pc = "Idle"
    /\ workUnits = <<>>
    /\ history = <<>>
    /\ writes = [D |-> <<>>, S |-> <<>>]
    /\ reads = {}
    /\ staleDisplacements = {}
    /\ MetricConstructed

(***************************************************************************)
(* The caller configures the filter between executions.                    *)
(***************************************************************************)
CallerHasControl == pc \in {"Idle", "Failed"}

SetFeaturePoints ==
    /\ CallerHasControl
    /\ \E p \in {NullPtr} \cup { Ptr(f) : f \in FeaturePointSets } :
          featurePoints' = p
    /\ pc' = "Idle"
    /\ UNCHANGED <<fixedImage, movingImage, m_BlockRadius, m_SearchRadius,
                   numberOfWorkUnits, m_PointsCount, arrays, outputs, workUnits,
                   history, writes, reads>>
    /\ UNCHANGED <<staleDisplacements, metricVars>>

SetFixedImage ==
    /\ CallerHasControl
    /\ \E p \in {NullPtr, Ptr(RampImage)} : fixedImage' = p
    /\ pc' = "Idle"
    /\ UNCHANGED <<featurePoints, movingImage, m_BlockRadius, m_SearchRadius,
                   numberOfWorkUnits, m_PointsCount, arrays, outputs, workUnits,
                   history, writes, reads>>
    /\ UNCHANGED <<staleDisplacements, metricVars>>

SetMovingImage ==
    /\ CallerHasControl
    /\ \E p \in {NullPtr} \cup {Ptr(BumpImage), Ptr(BrightBumpImage)} : movingImage' = p
    /\ pc' = "Idle"
    /\ UNCHANGED <<featurePoints, fixedImage, m_BlockRadius, m_SearchRadius,
                   numberOfWorkUnits, m_PointsCount, arrays, outputs, workUnits,
                   history, writes, reads>>
    /\ UNCHANGED <<staleDisplacements, metricVars>>

SetBlockRadius ==
    /\ CallerHasControl
    /\ \E r \in BlockRadii : m_BlockRadius' = r
    /\ pc' = "Idle"
    /\ UNCHANGED <<featurePoints, fixedImage, movingImage, m_SearchRadius,
                   numberOfWorkUnits, m_PointsCount, arrays, outputs, workUnits,
                   history, writes, reads>>
    /\ UNCHANGED <<staleDisplacements, metricVars>>

SetSearchRadius ==
    /\ CallerHasControl
    /\ \E r \in SearchRadii : m_SearchRadius' = r
    /\ pc' = "Idle"
    /\ UNCHANGED <<featurePoints, fixedImage, movingImage, m_BlockRadius,
                   numberOfWorkUnits, m_PointsCount, arrays, outputs, workUnits,
                   history, writes, reads>>
    /\ UNCHANGED <<staleDisplacements, metricVars>>

SetNumberOfWorkUnits ==
    /\ CallerHasControl
    /\ \E w \in 1..MaxWorkUnits : numberOfWorkUnits' = w
    /\ pc' = "Idle"
    /\ UNCHANGED <<featurePoints, fixedImage, movingImage, m_BlockRadius,
                   m_SearchRadius, m_PointsCount, arrays, outputs, workUnits,
                   history, writes, reads>>
    /\ UNCHANGED <<staleDisplacements, metricVars>>

(***************************************************************************)
(* One execution.                                                          *)
(***************************************************************************)
\* every input declared required is set
VerifyPreconditions == \A name \in RequiredInputNames : ~Input(name).null

\* the caller starts an execution.  What runs before GenerateData belongs to
\* the pipeline and not to this class; it is taken from the specification:
\* no output collection of an execution before is left once an execution has
\* started, the required inputs are verified, and a missing one is a
\* configuration error, raised before GenerateData is entered
Update ==
    /\ CallerHasControl
    /\ displacements' = EmptyPointSet
    /\ similarities' = EmptyPointSet
    /\ pc' = IF VerifyPreconditions THEN "GenerateData" ELSE "Failed"
    /\ history' = <<>>
    /\ writes' = [D |-> <<>>, S |-> <<>>]
    /\ reads' = {}
    /\ workUnits' = <<>>
    /\ UNCHANGED <<inputs, m_PointsCount, arrays>>
    /\ UNCHANGED <<staleDisplacements, metricVars>>

\* an array of n elements from make_unique_for_overwrite
MakeUniqueForOverwrite(n) == Ptr([i \in 1..n |-> Uninit])

\* CountFeaturePoints without the reset: with no feature point input the
\* count of the execution before is kept
CountFeaturePointsWithoutReset ==
    IF featurePoints.null THEN m_PointsCount ELSE Len(featurePoints.v)

\* the number of feature points BeforeThreadedGenerateData finds
CountFeaturePoints ==
    IF featurePoints.null THEN 0 ELSE Len(featurePoints.v)

\* InvalidNumberOfFeaturePoints with the test n < 0, which no count meets
InvalidNumberOfFeaturePointsNever(n) == n < 0

\* the test that makes BeforeThreadedGenerateData throw
InvalidNumberOfFeaturePoints(n) == n < 1

BeforeThreadedGenerateData ==
    /\ pc = "GenerateData"
    /\ m_PointsCount' = CountFeaturePoints
    /\ history' = Append(history, "BeforeThreadedGenerateData")
    /\ IF InvalidNumberOfFeaturePoints(m_PointsCount')
       THEN \* itkExceptionMacro: the exception leaves GenerateData
            /\ pc' = "Failed"
            /\ UNCHANGED <<arrays, writes>>
       ELSE /\ m_DisplacementsVectorsArray' = MakeUniqueForOverwrite(m_PointsCount')
            /\ m_SimilaritiesValuesArray' = MakeUniqueForOverwrite(m_PointsCount')
            /\ writes' = [D |-> [i \in 1..m_PointsCount' |-> <<>>],
                          S |-> [i \in 1..m_PointsCount' |-> <<>>]]
            /\ pc' = "Validated"
    /\ UNCHANGED <<inputs, outputs, workUnits, reads>>
    /\ UNCHANGED <<staleDisplacements, metricVars>>

\* a ThreadedGenerateData call that the threader has not run yet
NotStarted ==
    [pc |-> "start", first |-> 0, idx |-> 0, last |-> 0, similarity |-> DoubleZero]

\* SetSingleMethodAndExecute: one ThreaderCallback per work unit
SetSingleMethodAndExecute ==
    /\ pc = "Validated"
    /\ workUnits' = [t \in 1..numberOfWorkUnits |-> NotStarted]
    /\ history' = Append(history, "SetSingleMethodAndExecute")
    /\ pc' = "Running"
    /\ UNCHANGED <<inputs, m_PointsCount, arrays, outputs, writes, reads>>
    /\ UNCHANGED <<staleDisplacements, metricVars>>

\* what the local displacement reads as when it is copied into the array:
\* the value the last accepted candidate assigned to it or, when no candidate
\* of the window was accepted, whatever its storage holds.  The storage is
\* on the stack of the thread that runs the call, where an iteration that
\* ended before, of this call or of any call that ran on the thread, of this
\* execution or of one before, has left its displacement; or it holds other
\* bytes, which IndeterminateVectors stands for
LocalDisplacement(assigned) ==
    IF assigned # Uninit THEN {assigned}
    ELSE IndeterminateVectors(Len(m_SearchRadius)) \cup staleDisplacements

\* MatchAndStoreDisplacement with the displacement stored at the index
\* relative to the work unit's first point
MatchAndStoreDisplacementLocalIndex(threadId, first, idx, last) ==
    LET found == MatchPoint(fixedImage.v, movingImage.v, m_BlockRadius,
                            m_SearchRadius, At(featurePoints.v, idx))
    IN  \E displacement \in LocalDisplacement(found.displacement) :
            /\ m_DisplacementsVectorsArray' =
                  Ptr(Put(m_DisplacementsVectorsArray.v, idx - first, displacement))
            /\ staleDisplacements' = staleDisplacements \cup {displacement}
            /\ writes' = [writes EXCEPT !.D[idx - first + 1] = Append(@, threadId)]
            /\ workUnits' = Put(workUnits, threadId,
                                [pc |-> "store", first |-> first, idx |-> idx,
                                 last |-> last, similarity |-> found.similarity])
            /\ UNCHANGED m_SimilaritiesValuesArray

\* the assignment of the displacement found for point idx, by work unit
\* threadId whose range is [first, last): the local displacement is copied
\* as it is, and its storage keeps the value when the iteration ends; the
\* similarity found is held until its own assignment
StoreDisplacement(threadId, first, idx, last, found) ==
    \E displacement \in LocalDisplacement(found.displacement) :
        /\ m_DisplacementsVectorsArray' =
              Ptr(Put(m_DisplacementsVectorsArray.v, idx, displacement))
        /\ staleDisplacements' = staleDisplacements \cup {displacement}
        /\ writes' = [writes EXCEPT !.D[idx + 1] = Append(@, threadId)]
        /\ workUnits' = Put(workUnits, threadId,
                            [pc |-> "store", first |-> first, idx |-> idx,
                             last |-> last, similarity |-> found.similarity])
        /\ UNCHANGED m_SimilaritiesValuesArray

\* the body of the loop over the feature points up to the assignment of the
\* displacement of point idx, by work unit threadId whose range is
\* [first, last)
MatchAndStoreDisplacement(threadId, first, idx, last) ==
    StoreDisplacement(threadId, first, idx, last,
                      MatchPoint(fixedImage.v, movingImage.v, m_BlockRadius,
                                 m_SearchRadius, At(featurePoints.v, idx)))

\* ThreadedGenerateData(threadId) from its entry to the first assignment
ThreadedGenerateData(threadId) ==
    /\ pc = "Running"
    /\ threadId < Len(workUnits)
    /\ At(workUnits, threadId).pc = "start"
    /\ LET first == First(threadId, m_PointsCount, numberOfWorkUnits)
           last == Last(threadId, m_PointsCount, numberOfWorkUnits)
       IN  IF first < last
           THEN MatchAndStoreDisplacement(threadId, first, first, last)
           ELSE /\ workUnits' = Put(workUnits, threadId,
                                    [pc |-> "done", first |-> first, idx |-> first,
                                     last |-> last, similarity |-> DoubleZero])
                /\ UNCHANGED <<arrays, writes, staleDisplacements>>
    /\ UNCHANGED <<inputs, m_PointsCount, outputs, pc, history, reads>>
    /\ UNCHANGED metricVars

\* the assignment of the similarity of the current point, ++idx and the
\* loop test
StoreSimilarity(threadId) ==
    /\ pc = "Running"
    /\ threadId < Len(workUnits)
    /\ At(workUnits, threadId).pc = "store"
    /\ LET self == At(workUnits, threadId)
       IN  /\ m_SimilaritiesValuesArray' =
                 Ptr(Put(m_SimilaritiesValuesArray.v, self.idx, self.similarity))
           /\ writes' = [writes EXCEPT !.S[self.idx + 1] = Append(@, threadId)]
           /\ workUnits' = Put(workUnits, threadId,
                               [pc |-> IF self.idx + 1 < self.last
                                       THEN "loop" ELSE "done",
                                first |-> self.first, idx |-> self.idx + 1,
                                last |-> self.last, similarity |-> DoubleZero])
    /\ UNCHANGED <<inputs, m_PointsCount, m_DisplacementsVectorsArray, outputs,
                   pc, history, reads>>
    /\ UNCHANGED <<staleDisplacements, metricVars>>

\* the next iteration of the loop over the feature points
NextPoint(threadId) ==
    /\ pc = "Running"
    /\ threadId < Len(workUnits)
    /\ At(workUnits, threadId).pc = "loop"
    /\ MatchAndStoreDisplacement(threadId, At(workUnits, threadId).first,
                                 At(workUnits, threadId).idx,
                                 At(workUnits, threadId).last)
    /\ UNCHANGED <<inputs, m_PointsCount, outputs, pc, history, reads>>
    /\ UNCHANGED metricVars

\* every ThreaderCallback has returned
\* wait for one completion more than the work units there are
OneMoreWorkUnitDone ==
    /\ Len(workUnits) > numberOfWorkUnits
    /\ \A t \in 1..Len(workUnits) : workUnits[t].pc = "done"

AllWorkUnitsDone == \A t \in 1..Len(workUnits) : workUnits[t].pc = "done"

\* Join without waiting for the work units
JoinWithoutWaiting ==
    /\ pc = "Running"
    /\ history' = Append(history, "Join")
    /\ pc' = "Joined"
    /\ UNCHANGED <<inputs, m_PointsCount, arrays, outputs, workUnits, writes, reads>>
    /\ UNCHANGED <<staleDisplacements, metricVars>>

\* SetSingleMethodAndExecute returns once every work unit has returned
Join ==
    /\ pc = "Running"
    /\ AllWorkUnitsDone
    /\ history' = Append(history, "Join")
    /\ pc' = "Joined"
    /\ UNCHANGED <<inputs, m_PointsCount, arrays, outputs, workUnits, writes, reads>>
    /\ UNCHANGED <<staleDisplacements, metricVars>>

\* ReadAll with slot i read from the mirrored slot
ReadAllMirrored(array, indeterminate) ==
    { [i \in 1..Len(array) |->
         IF array[Len(array) + 1 - i] = Uninit THEN g[Len(array) + 1 - i]
         ELSE array[Len(array) + 1 - i]] :
        g \in [{ i \in 1..Len(array) : array[i] = Uninit } -> indeterminate] }

\* what reading every slot of an array in the insertion loop yields.  A slot
\* that was never assigned reads as any value of its type: the value of the
\* slot before, or one of indeterminate
RECURSIVE ReadAll(_, _)
ReadAll(array, indeterminate) ==
    IF array = <<>> THEN {<<>>}
    ELSE UNION { { Append(front, value) :
                     value \in IF array[Len(array)] # Uninit THEN {array[Len(array)]}
                               ELSE indeterminate \cup { front[i] : i \in {Len(front)} \ {0} } } :
                 front \in ReadAll(SubSeq(array, 1, Len(array) - 1), indeterminate) }

\* InsertCount with the loop left one iteration early
InsertCountOneShort == m_PointsCount - 1

\* the number of iterations of the insertion loop
InsertCount == m_PointsCount

\* CleanUp that resets the displacements array only
CleanUpDisplacementsOnly ==
    /\ m_DisplacementsVectorsArray' = NullPtr
    /\ UNCHANGED m_SimilaritiesValuesArray

\* the clean up at the end of AfterThreadedGenerateData
CleanUp ==
    /\ m_DisplacementsVectorsArray' = NullPtr
    /\ m_SimilaritiesValuesArray' = NullPtr

\* AfterThreadedGenerateData that takes the points out of the feature point
\* input instead of copying them
AfterThreadedGenerateDataTakingPoints ==
    /\ pc = "Joined"
    /\ ~featurePoints.null
    /\ \E d \in ReadAll(SubSeq(m_DisplacementsVectorsArray.v, 1, InsertCount),
                         IndeterminateVectors(Len(m_SearchRadius))),
           s \in ReadAll(SubSeq(m_SimilaritiesValuesArray.v, 1, InsertCount),
                         IndeterminateValues) :
          /\ displacements' =
                [points |-> SubSeq(featurePoints.v, 1, InsertCount), data |-> d]
          /\ similarities' =
                [points |-> SubSeq(featurePoints.v, 1, InsertCount), data |-> s]
          /\ reads' = reads \cup
                { <<"AfterThreadedGenerateData", a, i>> :
                    a \in {"D", "S"}, i \in 0..(InsertCount - 1) }
    /\ featurePoints' = Ptr(<<>>)
    /\ CleanUp
    /\ history' = Append(history, "AfterThreadedGenerateData")
    /\ pc' = "Assembled"
    /\ UNCHANGED <<fixedImage, movingImage, m_BlockRadius, m_SearchRadius,
                   numberOfWorkUnits, m_PointsCount, workUnits, writes>>
    /\ UNCHANGED <<staleDisplacements, metricVars>>

AfterThreadedGenerateData ==
    /\ pc = "Joined"
    /\ IF ~featurePoints.null
       THEN \E d \in ReadAll(SubSeq(m_DisplacementsVectorsArray.v, 1, InsertCount),
                             IndeterminateVectors(Len(m_SearchRadius))),
               s \in ReadAll(SubSeq(m_SimilaritiesValuesArray.v, 1, InsertCount),
                             IndeterminateValues) :
              /\ displacements' =
                    [points |-> SubSeq(featurePoints.v, 1, InsertCount), data |-> d]
              /\ similarities' =
                    [points |-> SubSeq(featurePoints.v, 1, InsertCount), data |-> s]
              /\ reads' = reads \cup
                    { <<"AfterThreadedGenerateData", a, i>> :
                        a \in {"D", "S"}, i \in 0..(InsertCount - 1) }
       ELSE UNCHANGED <<outputs, reads>>
    /\ CleanUp
    /\ history' = Append(history, "AfterThreadedGenerateData")
    /\ pc' = "Assembled"
    /\ UNCHANGED <<inputs, m_PointsCount, workUnits, writes>>
    /\ UNCHANGED <<staleDisplacements, metricVars>>

\* GenerateData returns to the caller
Return ==
    /\ pc = "Assembled"
    /\ pc' = "Idle"
    /\ workUnits' = <<>>
    /\ history' = <<>>
    /\ writes' = [D |-> <<>>, S |-> <<>>]
    /\ reads' = {}
    /\ UNCHANGED <<inputs, m_PointsCount, arrays, outputs>>
    /\ UNCHANGED <<staleDisplacements, metricVars>>

Next ==
    \/ SetFeaturePoints
    \/ SetFixedImage
    \/ SetMovingImage
    \/ SetBlockRadius
    \/ SetSearchRadius
    \/ SetNumberOfWorkUnits
    \/ Update
    \/ BeforeThreadedGenerateData
    \/ SetSingleMethodAndExecute
    \/ \E threadId \in 0..(MaxWorkUnits - 1) : ThreadedGenerateData(threadId)
    \/ \E threadId \in 0..(MaxWorkUnits - 1) : StoreSimilarity(threadId)
    \/ \E threadId \in 0..(MaxWorkUnits - 1) : NextPoint(threadId)
    \/ Join
    \/ AfterThreadedGenerateData
    \/ Return

Spec == Init /\ [][Next]_vars

(***************************************************************************)
(* The search of ThreadedGenerateData, one neighbourhood of the window per *)
(* step, on 2-D images.  The inputs are set before the first execution and *)
(* one work unit runs; the locals of ThreadedGenerateData are fields of    *)
(* the work unit, and visited keeps, in the order of the window iterator,  *)
(* what each iteration of the window loop computed.                        *)
(***************************************************************************)
\* a 2-D image of the given origin and size whose pixels are pixels[x][y]
\* at index (x, y), in raster order
Image2D(origin, size, pixels) ==
    [origin |-> origin, size |-> size,
     pix |-> [i \in 1..(size[1] * size[2]) |->
                 pixels[(i - 1) % size[1]][(i - 1) \div size[1]]]]

\* 20 x 20 pixels of a linear ramp
RampImage2D ==
    Image2D(<<0, 0>>, <<20, 20>>, [x \in 0..19 |-> [y \in 0..19 |-> 1 + 2 * x + 3 * y]])

\* 8 x 8 pixels without regularity
TextureImage ==
    Image2D(<<0, 0>>, <<8, 8>>,
            [x \in 0..7 |-> [y \in 0..7 |-> (x * x + 3 * x * y + 2 * y * y * y + 5 * y) % 7]])

\* 9 x 8 other pixels; its index (0, 0) is at physical (-1, 1)
ShiftedImage ==
    Image2D(<<-1, 1>>, <<9, 8>>,
            [x \in 0..8 |-> [y \in 0..7 |-> (2 * x * x + x * y + 3 * y * y + x) % 5]])

\* 8 x 8 equal pixels
FlatImage ==
    Image2D(<<0, 0>>, <<8, 8>>, [x \in 0..7 |-> [y \in 0..7 |-> 4]])

\* 8 x 8 pixels, equal in the columns 0 .. 3 and without regularity in the
\* others
PlateauImage ==
    Image2D(<<0, 0>>, <<8, 8>>,
            [x \in 0..7 |-> [y \in 0..7 |->
                IF x <= 3 THEN 4 ELSE (x * x + 3 * x * y + 2 * y * y * y + 5 * y) % 7]])

\* 8 x 8 pixels: those of TextureImage, each 3 more
BrighterImage ==
    Image2D(<<0, 0>>, <<8, 8>>,
            [x \in 0..7 |-> [y \in 0..7 |->
                3 + ((x * x + 3 * x * y + 2 * y * y * y + 5 * y) % 7)]])

\* 8 x 8 pixels in columns of 0 and 1
StripeImage ==
    Image2D(<<0, 0>>, <<8, 8>>, [x \in 0..7 |-> [y \in 0..7 |-> x % 2]])

\* 8 x 8 pixels in columns of 2^26 and 2^26 + 1
BrightStripeImage ==
    Image2D(<<0, 0>>, <<8, 8>>, [x \in 0..7 |-> [y \in 0..7 |-> 67108864 + (x % 2)]])

\* the <<fixed image, moving image>> pairs the search is run on
ImagePairs ==
    { <<RampImage2D, RampImage2D>>, <<TextureImage, TextureImage>>,
      <<TextureImage, ShiftedImage>>, <<ShiftedImage, TextureImage>>,
      <<FlatImage, TextureImage>>, <<PlateauImage, TextureImage>>,
      <<TextureImage, BrighterImage>>, <<StripeImage, BrightStripeImage>>,
      <<BrightStripeImage, BrightStripeImage>> }

\* the i-th feature point (0-based): physical points at least 3 pixels
\* inside the images
PointAt2D(i) == <<3 + (i % 2), 3 + ((i \div 2) % 2)>>

\* the feature points of the search: MaxPoints of them
PointSet2D == [i \in 1..MaxPoints |-> PointAt2D(i - 1)]

\* the filter with its inputs set, before the first execution
SearchInit ==
    /\ featurePoints = Ptr(PointSet2D)
    /\ \E pair \in ImagePairs :
          /\ fixedImage = Ptr(pair[1])
          /\ movingImage = Ptr(pair[2])
    /\ m_BlockRadius \in {<<0, 0>>, <<1, 1>>}
    /\ m_SearchRadius \in {<<1, 1>>, <<2, 2>>}
    /\ numberOfWorkUnits = 1
    /\ m_PointsCount = 0
    /\ m_DisplacementsVectorsArray = NullPtr
    /\ m_SimilaritiesValuesArray = NullPtr
    /\ displacements = EmptyPointSet
    /\ similarities = EmptyPointSet
    /\ pc = "Idle"
    /\ workUnits = <<>>
    /\ history = <<>>
    /\ writes = [D |-> <<>>, S |-> <<>>]
    /\ reads = {}
    /\ staleDisplacements = {}
    /\ MetricConstructed

\* start with the window at the index of the point in the moving image
StartAtMovingIndex(fixedIndex, movingIndex, searchRadius) ==
    [a \in AxesOf(movingIndex) |-> movingIndex[a] - searchRadius[a]]

\* the index the window region starts at
Start(fixedIndex, movingIndex, searchRadius) ==
    [a \in AxesOf(fixedIndex) |-> fixedIndex[a] - searchRadius[a]]

\* ThreadedGenerateData(threadId) from its entry to the test of the loop over
\* the feature points
EnterThreadedGenerateData(threadId) ==
    /\ pc = "Running"
    /\ threadId < Len(workUnits)
    /\ At(workUnits, threadId).pc = "start"
    /\ LET first == First(threadId, m_PointsCount, numberOfWorkUnits)
           last == Last(threadId, m_PointsCount, numberOfWorkUnits)
       IN  workUnits' = Put(workUnits, threadId,
                            [pc |-> IF first < last THEN "point" ELSE "done",
                             first |-> first, idx |-> first, last |-> last,
                             similarity |-> DoubleZero])
    /\ UNCHANGED <<inputs, m_PointsCount, arrays, outputs, pc, history, writes, reads>>
    /\ UNCHANGED <<staleDisplacements, metricVars>>

\* the body of the loop over the feature points up to the window loop
BeginPoint(threadId) ==
    /\ pc = "Running"
    /\ threadId < Len(workUnits)
    /\ At(workUnits, threadId).pc = "point"
    /\ LET self == At(workUnits, threadId)
           originalLocation == At(featurePoints.v, self.idx)
           fixedIndex == TransformPhysicalPointToIndex(fixedImage.v, originalLocation)
           movingIndex == TransformPhysicalPointToIndex(movingImage.v, originalLocation)
       IN  workUnits' = Put(workUnits, threadId,
                            [pc |-> "window", first |-> self.first, idx |-> self.idx,
                             last |-> self.last,
                             originalLocation |-> originalLocation,
                             fixedIndex |-> fixedIndex,
                             movingIndex |-> movingIndex,
                             similarity |-> DoubleZero,
                             displacement |-> Uninit,
                             start |-> Start(fixedIndex, movingIndex, m_SearchRadius),
                             visited |-> <<>>])
    /\ UNCHANGED <<inputs, m_PointsCount, arrays, outputs, pc, history, writes, reads>>
    /\ UNCHANGED <<staleDisplacements, metricVars>>

\* one iteration of the window loop
VisitCandidate(threadId) ==
    /\ pc = "Running"
    /\ threadId < Len(workUnits)
    /\ At(workUnits, threadId).pc = "window"
    /\ Len(At(workUnits, threadId).visited) < NumberOfCandidates(m_SearchRadius)
    /\ LET self == At(workUnits, threadId)
           k == Len(self.visited)
           windowIndex == RasterIndex(self.start, BoxSize(m_SearchRadius), k)
           sums == BlockSums(fixedImage.v, movingImage.v, windowIndex,
                             self.movingIndex, m_BlockRadius, 0,
                             NumberOfVoxelInBlock(m_BlockRadius), NoSums)
           sim == SimOfSums(sums, NumberOfVoxelInBlock(m_BlockRadius))
           best == Accept(sim,
                          DisplacementTo(fixedImage.v, windowIndex, self.originalLocation),
                          [displacement |-> self.displacement,
                           similarity |-> self.similarity])
           seen == [windowIndex |-> windowIndex, sums |-> sums, sim |-> sim,
                    displacement |-> best.displacement]
       IN  workUnits' = Put(workUnits, threadId,
                            [self EXCEPT !.similarity = best.similarity,
                                         !.displacement = best.displacement,
                                         !.visited = Append(@, seen)])
    /\ UNCHANGED <<inputs, m_PointsCount, arrays, outputs, pc, history, writes, reads>>
    /\ UNCHANGED <<staleDisplacements, metricVars>>

\* the window iterator is at its end: both results of the point are stored,
\* then ++idx and the loop test
StorePoint(threadId) ==
    /\ pc = "Running"
    /\ threadId < Len(workUnits)
    /\ At(workUnits, threadId).pc = "window"
    /\ Len(At(workUnits, threadId).visited) = NumberOfCandidates(m_SearchRadius)
    /\ LET self == At(workUnits, threadId)
       IN  \E displacement \in LocalDisplacement(self.displacement) :
           /\ m_DisplacementsVectorsArray' =
                 Ptr(Put(m_DisplacementsVectorsArray.v, self.idx, displacement))
           /\ m_SimilaritiesValuesArray' =
                 Ptr(Put(m_SimilaritiesValuesArray.v, self.idx, self.similarity))
           /\ writes' = [writes EXCEPT !.D[self.idx + 1] = Append(@, threadId),
                                       !.S[self.idx + 1] = Append(@, threadId)]
           /\ staleDisplacements' = staleDisplacements \cup {displacement}
           /\ workUnits' = Put(workUnits, threadId,
                               [self EXCEPT !.pc = IF self.idx + 1 < self.last
                                                   THEN "point" ELSE "done",
                                            !.idx = self.idx + 1])
    /\ UNCHANGED <<inputs, m_PointsCount, outputs, pc, history, reads>>
    /\ UNCHANGED metricVars

SearchNext ==
    \/ Update
    \/ BeforeThreadedGenerateData
    \/ SetSingleMethodAndExecute
    \/ \E threadId \in 0..(MaxWorkUnits - 1) : EnterThreadedGenerateData(threadId)
    \/ \E threadId \in 0..(MaxWorkUnits - 1) : BeginPoint(threadId)
    \/ \E threadId \in 0..(MaxWorkUnits - 1) : VisitCandidate(threadId)
    \/ \E threadId \in 0..(MaxWorkUnits - 1) : StorePoint(threadId)
    \/ Join
    \/ AfterThreadedGenerateData
    \/ Return

SearchSpec == SearchInit /\ [][SearchNext]_vars

(***************************************************************************)
(* The search of SearchSpec on several work units, each scheduled fairly:  *)
(* the threader runs every work unit on a thread of its own, and the       *)
(* calling thread goes through GenerateData statement by statement.  The   *)
(* caller is not obliged to start another execution.  The blocks are       *)
(* single voxels: the lengths of the loops do not depend on pixel values.  *)
(***************************************************************************)
\* the most work units the fairly scheduled search is given
MaxSearchWorkUnits == 2

FairSearchInit ==
    /\ featurePoints = Ptr(PointSet2D)
    /\ fixedImage = Ptr(TextureImage)
    /\ movingImage = Ptr(ShiftedImage)
    /\ m_BlockRadius = <<0, 0>>
    /\ m_SearchRadius = <<1, 1>>
    /\ numberOfWorkUnits \in 1..MaxSearchWorkUnits
    /\ m_PointsCount = 0
    /\ m_DisplacementsVectorsArray = NullPtr
    /\ m_SimilaritiesValuesArray = NullPtr
    /\ displacements = EmptyPointSet
    /\ similarities = EmptyPointSet
    /\ pc = "Idle"
    /\ workUnits = <<>>
    /\ history = <<>>
    /\ writes = [D |-> <<>>, S |-> <<>>]
    /\ reads = {}
    /\ staleDisplacements = {}
    /\ MetricConstructed

\* a step of the calling thread inside GenerateData
GenerateDataStep ==
    \/ BeforeThreadedGenerateData
    \/ SetSingleMethodAndExecute
    \/ Join
    \/ AfterThreadedGenerateData
    \/ Return

\* a step of the callback of one work unit outside its window loop
ThreaderCallbackStep(threadId) ==
    \/ EnterThreadedGenerateData(threadId)
    \/ BeginPoint(threadId)
    \/ StorePoint(threadId)

\* the window loop of a work unit has a candidate left to visit: the guard
\* of VisitCandidate, whose step always lengthens the log of the work unit
CanVisitCandidate(threadId) ==
    /\ pc = "Running"
    /\ threadId < Len(workUnits)
    /\ At(workUnits, threadId).pc = "window"
    /\ Len(At(workUnits, threadId).visited) < NumberOfCandidates(m_SearchRadius)

\* WF_vars(VisitCandidate(threadId)) written out, with the guard of the action
\* for ENABLED <<VisitCandidate(threadId)>>_vars
WeaklyFairVisitCandidate(threadId) ==
    \/ []<>(~CanVisitCandidate(threadId))
    \/ []<><<VisitCandidate(threadId)>>_vars

FairSearchSpec ==
    /\ FairSearchInit
    /\ [][SearchNext]_vars
    /\ WF_vars(GenerateDataStep)
    /\ \A threadId \in 0..(MaxSearchWorkUnits - 1) :
          /\ WF_vars(ThreaderCallbackStep(threadId))
          /\ WeaklyFairVisitCandidate(threadId)

(***************************************************************************)
(* The filter under a threader that runs the callback for the work unit    *)
(* ids 0 .. K-1 only, for some K from 1 to the filter's number of work     *)
(* units: GenerateData passes the filter's number to the threader, and how *)
(* many callbacks the threader then runs is the threader's business.       *)
(* ThreadedGenerateData is as in Spec: it takes its range from its id and  *)
(* the filter's GetNumberOfWorkUnits().                                    *)
(***************************************************************************)
ThreaderInit ==
    /\ featurePoints \in { Ptr(points) : points \in FeaturePointSets \ {<<>>} }
    /\ fixedImage = Ptr(RampImage)
    /\ movingImage = Ptr(BumpImage)
    /\ m_BlockRadius \in BlockRadii
    /\ m_SearchRadius \in SearchRadii
    /\ numberOfWorkUnits \in 1..MaxWorkUnits
    /\ m_PointsCount = 0
    /\ m_DisplacementsVectorsArray = NullPtr
    /\ m_SimilaritiesValuesArray = NullPtr
    /\ displacements = EmptyPointSet
    /\ similarities = EmptyPointSet
    /\ pc = "Idle"
    /\ workUnits = <<>>
    /\ history = <<>>
    /\ writes = [D |-> <<>>, S |-> <<>>]
    /\ reads = {}
    /\ staleDisplacements = {}
    /\ MetricConstructed

\* SetSingleMethodAndExecute on a threader that runs the callbacks of the
\* first dispatched work unit ids only
SetSingleMethodAndExecuteSome ==
    /\ pc = "Validated"
    /\ \E dispatched \in 1..numberOfWorkUnits :
          workUnits' = [t \in 1..dispatched |-> NotStarted]
    /\ history' = Append(history, "SetSingleMethodAndExecute")
    /\ pc' = "Running"
    /\ UNCHANGED <<inputs, m_PointsCount, arrays, outputs, writes, reads>>
    /\ UNCHANGED <<staleDisplacements, metricVars>>

ThreaderNext ==
    \/ Update
    \/ BeforeThreadedGenerateData
    \/ SetSingleMethodAndExecuteSome
    \/ \E threadId \in 0..(MaxWorkUnits - 1) : ThreadedGenerateData(threadId)
    \/ \E threadId \in 0..(MaxWorkUnits - 1) : StoreSimilarity(threadId)
    \/ \E threadId \in 0..(MaxWorkUnits - 1) : NextPoint(threadId)
    \/ Join
    \/ AfterThreadedGenerateData
    \/ Return

ThreaderSpec == ThreaderInit /\ [][ThreaderNext]_vars

(***************************************************************************)
(* MeanSquaresImageToImageMetric.  The fixed image samples, the mapping of *)
(* a sample into the moving image and the moving image's values and        *)
(* gradients come from ImageToImageMetric; here the images are 1-D, the    *)
(* transform is a translation by its one parameter, and a sample maps      *)
(* outside the moving image buffer when its translated position does.      *)
(* The threader gives every work unit a contiguous chunk of the samples.   *)
(* The pixels are integers; the metric reads them as double and            *)
(* accumulates in double (MeasureType and the elements of DerivativeType   *)
(* are double).                                                            *)
(***************************************************************************)
\* m_FixedImageSamples[s].value
FixedImageSamples == <<1, 3, 2, 5>>

\* the values and the gradients of the moving image at its positions; the
\* first value is bright: its squared difference from the fixed sample is
\* 2^54, next to which a 1 is lost in a double addition
MovingImageBuffer == <<2 ^ 27 + 1, 4, 3, 6>>

MovingImageGradient == <<1, 2, -1, -1>>

\* the parameters GetValue and GetValueAndDerivative are called with
MetricParameters == {0, 1, 4}

\* m_NumberOfParameters of a 1-D translation
NumberOfParameters == Len(<<"translation">>)

\* the sample is mapped inside the moving image buffer
MapsInside(parameters, fixedImageSample) ==
    (fixedImageSample + 1 + parameters) \in DOMAIN MovingImageBuffer

\* movingImageValue and movingImageGradientValue of a sample mapped inside
MovingImageValue(parameters, fixedImageSample) ==
    MovingImageBuffer[fixedImageSample + 1 + parameters]

MovingImageGradientValue(parameters, fixedImageSample) ==
    MovingImageGradient[fixedImageSample + 1 + parameters]

\* what an element of m_PerThread may hold after Initialize: m_MSE lies in
\* the array from make_unique_for_overwrite, the elements of m_MSEDerivative
\* in the block that SetSize allocates, and neither is written, so each holds
\* whatever its storage held before (here 0 or 7, and 0 or 5)
IndeterminatePerThread ==
    { [m_MSE |-> mse, m_MSEDerivative |-> [par \in 1..NumberOfParameters |-> d]] :
          mse \in {DoubleZero, ToDouble(7)}, d \in {DoubleZero, ToDouble(5)} }

SetMetricFixedImage ==
    /\ metricPc = "Idle"
    /\ m_PerThread = NullPtr
    /\ m_FixedImage' = Ptr(FixedImageSamples)
    /\ UNCHANGED <<m_NumberOfWorkUnits, m_PerThread, m_Transform,
                   m_NumberOfPixelsCounted, metricPc, chunks, returned>>
    /\ UNCHANGED filterVars

\* Initialize, on a metric that has its fixed image
Initialize ==
    /\ metricPc = "Idle"
    /\ ~m_FixedImage.null
    /\ \E w \in 1..MaxWorkUnits :
          /\ m_NumberOfWorkUnits' = w
          /\ \E perThread \in [1..w -> IndeterminatePerThread] :
                m_PerThread' = Ptr(perThread)
    /\ UNCHANGED <<m_FixedImage, m_Transform, m_NumberOfPixelsCounted, metricPc,
                   chunks, returned>>
    /\ UNCHANGED filterVars

\* the reset loop of GetValue with work unit 0 left out
ZeroMSEFromSecond(perThread) ==
    [i \in DOMAIN perThread |->
        IF i = 1 THEN perThread[i] ELSE [perThread[i] EXCEPT !.m_MSE = DoubleZero]]

\* m_PerThread[i].m_MSE = MeasureType{} for every work unit
ZeroMSE(perThread) ==
    [i \in DOMAIN perThread |-> [perThread[i] EXCEPT !.m_MSE = DoubleZero]]

\* the memset of m_PerThread[workUnitID].m_MSEDerivative for every work unit
ZeroMSEDerivative(perThread) ==
    [i \in DOMAIN perThread |->
        [perThread[i] EXCEPT
            !.m_MSEDerivative = [par \in 1..NumberOfParameters |-> DoubleZero]]]

\* the ways the samples are given to workUnitCount work units: contiguous
\* chunks in work unit order, none of them started
Chunks(workUnitCount) ==
    { [t \in 1..workUnitCount |-> [next |-> b[t], end |-> b[t + 1], counted |-> 0]] :
        b \in { c \in [1..(workUnitCount + 1) -> 0..Len(FixedImageSamples)] :
                  /\ c[1] = 0
                  /\ c[workUnitCount + 1] = Len(FixedImageSamples)
                  /\ \A t \in 1..workUnitCount : c[t] <= c[t + 1] } }

\* the exception a call leaves with
MetricException(description) == [call |-> "exception", description |-> description]

\* GetValue up to GetValueMultiThreadedInitiate.  Before Initialize m_PerThread
\* is null and the reset loop writes through it: the process is killed by the
\* memory fault, before the parameters are set
GetValue ==
    /\ metricPc = "Idle"
    /\ \E parameters \in MetricParameters :
          IF m_FixedImage.null
          THEN /\ returned' = MetricException("Fixed image has not been assigned")
               /\ UNCHANGED <<m_PerThread, m_Transform, metricPc, chunks>>
          ELSE IF m_PerThread.null
          THEN /\ metricPc' = "Killed"
               /\ UNCHANGED <<m_PerThread, m_Transform, chunks, returned>>
          ELSE /\ m_PerThread' = Ptr(ZeroMSE(m_PerThread.v))
               /\ m_Transform' = parameters
               /\ chunks' \in Chunks(m_NumberOfWorkUnits)
               /\ metricPc' = "GetValue"
               /\ UNCHANGED returned
    /\ UNCHANGED <<m_FixedImage, m_NumberOfWorkUnits, m_NumberOfPixelsCounted>>
    /\ UNCHANGED filterVars

\* const double diff = movingImageValue - m_FixedImageSamples[..].value
Difference(movingImageValue, fixedImageValue) ==
    DoubleSubtract(ToDouble(movingImageValue), ToDouble(fixedImageValue))

\* m_MSE += diff * diff
AddSquare(mse, diff) == DoubleAdd(mse, DoubleMultiply(diff, diff))

\* sum = 0.0; sum += 2.0 * diff * m_Jacobian(dim, par) * movingImageGradientValue[dim]
\* for the one dimension, the Jacobian of a translation being 1;
\* m_MSEDerivative[par] += sum
AddDerivativeTerm(mseDerivative, diff, movingImageGradientValue) ==
    DoubleAdd(mseDerivative,
              DoubleAdd(DoubleZero,
                        DoubleMultiply(DoubleMultiply(DoubleMultiply(ToDouble(2), diff),
                                                      DoubleOne),
                                       ToDouble(movingImageGradientValue))))

\* a work unit takes the next sample of its chunk and, when the sample maps
\* inside the moving image buffer, calls GetValueThreadProcessSample
GetValueThreadProcessSample(threadId) ==
    /\ metricPc = "GetValue"
    /\ threadId < m_NumberOfWorkUnits
    /\ At(chunks, threadId).next < At(chunks, threadId).end
    /\ LET fixedImageSample == At(chunks, threadId).next
           inside == MapsInside(m_Transform, fixedImageSample)
           diff == Difference(MovingImageValue(m_Transform, fixedImageSample),
                              At(m_FixedImage.v, fixedImageSample))
       IN  /\ m_PerThread' =
                 IF inside
                 THEN Ptr(Put(m_PerThread.v, threadId,
                              [At(m_PerThread.v, threadId) EXCEPT
                                 !.m_MSE = AddSquare(@, diff)]))
                 ELSE m_PerThread
           /\ chunks' = Put(chunks, threadId,
                            [At(chunks, threadId) EXCEPT
                               !.next = @ + 1,
                               !.counted = IF inside THEN @ + 1 ELSE @])
    /\ UNCHANGED <<m_FixedImage, m_NumberOfWorkUnits, m_Transform,
                   m_NumberOfPixelsCounted, metricPc, returned>>
    /\ UNCHANGED filterVars

\* every work unit has gone through its chunk
AllChunksDone == \A t \in 1..Len(chunks) : chunks[t].next = chunks[t].end

\* the number of samples the work units of 1 .. t counted
RECURSIVE PixelsCounted(_)
PixelsCounted(t) == IF t = 0 THEN 0 ELSE PixelsCounted(t - 1) + chunks[t].counted

\* m_NumberOfPixelsCounted < m_NumberOfFixedImageSamples / 4
TooManySamplesOutside(pixelsCounted) ==
    pixelsCounted < Len(FixedImageSamples) \div 4

\* value = 0; value += m_PerThread[t].m_MSE for the work units 1 .. t in
\* their order, every addition a double addition (GetValue starts from the
\* m_MSE of the first work unit, which is what 0 + m_MSE gives)
RECURSIVE SumMSE(_, _)
SumMSE(perThread, t) ==
    IF t = 0 THEN DoubleZero
    ELSE DoubleAdd(SumMSE(perThread, t - 1), perThread[t].m_MSE)

\* derivative[par], zeroed by the memset, += m_PerThread[t].m_MSEDerivative[par]
\* for the work units 1 .. t in their order
RECURSIVE SumMSEDerivative(_, _, _)
SumMSEDerivative(perThread, par, t) ==
    IF t = 0 THEN DoubleZero
    ELSE DoubleAdd(SumMSEDerivative(perThread, par, t - 1),
                   perThread[t].m_MSEDerivative[par])

\* GetValue from the return of GetValueMultiThreadedInitiate
GetValueReturn ==
    /\ metricPc = "GetValue"
    /\ AllChunksDone
    /\ m_NumberOfPixelsCounted' = PixelsCounted(Len(chunks))
    /\ returned' =
          IF TooManySamplesOutside(m_NumberOfPixelsCounted')
          THEN MetricException("Too many samples map outside moving image buffer")
          ELSE [call |-> "GetValue",
                parameters |-> m_Transform,
                value |-> DoubleDivide(SumMSE(m_PerThread.v, m_NumberOfWorkUnits),
                                       ToDouble(m_NumberOfPixelsCounted'))]
    /\ metricPc' = "Idle"
    /\ UNCHANGED <<m_FixedImage, m_NumberOfWorkUnits, m_PerThread, m_Transform, chunks>>
    /\ UNCHANGED filterVars

\* GetValueAndDerivative up to GetValueAndDerivativeMultiThreadedInitiate.
\* Before Initialize m_PerThread is null and the reset loop writes through it:
\* the process is killed by the memory fault, after the parameters are set
GetValueAndDerivative ==
    /\ metricPc = "Idle"
    /\ \E parameters \in MetricParameters :
          IF m_FixedImage.null
          THEN /\ returned' = MetricException("Fixed image has not been assigned")
               /\ UNCHANGED <<m_PerThread, m_Transform, metricPc, chunks>>
          ELSE IF m_PerThread.null
          THEN /\ m_Transform' = parameters
               /\ metricPc' = "Killed"
               /\ UNCHANGED <<m_PerThread, chunks, returned>>
          ELSE /\ m_Transform' = parameters
               /\ m_PerThread' = Ptr(ZeroMSEDerivative(ZeroMSE(m_PerThread.v)))
               /\ chunks' \in Chunks(m_NumberOfWorkUnits)
               /\ metricPc' = "GetValueAndDerivative"
               /\ UNCHANGED returned
    /\ UNCHANGED <<m_FixedImage, m_NumberOfWorkUnits, m_NumberOfPixelsCounted>>
    /\ UNCHANGED filterVars

\* GetDerivative: its own check of the fixed image, then the call of
\* GetValueAndDerivative up to GetValueAndDerivativeMultiThreadedInitiate,
\* with a local value that the caller never sees
GetDerivative ==
    /\ metricPc = "Idle"
    /\ \E parameters \in MetricParameters :
          IF m_FixedImage.null
          THEN /\ returned' = MetricException("Fixed image has not been assigned")
               /\ UNCHANGED <<m_PerThread, m_Transform, metricPc, chunks>>
          ELSE IF m_PerThread.null
          THEN /\ m_Transform' = parameters
               /\ metricPc' = "Killed"
               /\ UNCHANGED <<m_PerThread, chunks, returned>>
          ELSE /\ m_Transform' = parameters
               /\ m_PerThread' = Ptr(ZeroMSEDerivative(ZeroMSE(m_PerThread.v)))
               /\ chunks' \in Chunks(m_NumberOfWorkUnits)
               /\ metricPc' = "GetDerivative"
               /\ UNCHANGED returned
    /\ UNCHANGED <<m_FixedImage, m_NumberOfWorkUnits, m_NumberOfPixelsCounted>>
    /\ UNCHANGED filterVars

\* a work unit takes the next sample of its chunk and, when the sample maps
\* inside the moving image buffer, calls
\* GetValueAndDerivativeThreadProcessSample; the Jacobian of the translation
\* is 1
GetValueAndDerivativeThreadProcessSample(threadId) ==
    /\ metricPc \in {"GetValueAndDerivative", "GetDerivative"}
    /\ threadId < m_NumberOfWorkUnits
    /\ At(chunks, threadId).next < At(chunks, threadId).end
    /\ LET fixedImageSample == At(chunks, threadId).next
           inside == MapsInside(m_Transform, fixedImageSample)
           diff == Difference(MovingImageValue(m_Transform, fixedImageSample),
                              At(m_FixedImage.v, fixedImageSample))
           movingImageGradientValue == MovingImageGradientValue(m_Transform, fixedImageSample)
           threadS == At(m_PerThread.v, threadId)
       IN  /\ m_PerThread' =
                 IF inside
                 THEN Ptr(Put(m_PerThread.v, threadId,
                              [m_MSE |-> AddSquare(threadS.m_MSE, diff),
                               m_MSEDerivative |->
                                   [par \in 1..NumberOfParameters |->
                                       AddDerivativeTerm(threadS.m_MSEDerivative[par], diff,
                                                         movingImageGradientValue)]]))
                 ELSE m_PerThread
           /\ chunks' = Put(chunks, threadId,
                            [At(chunks, threadId) EXCEPT
                               !.next = @ + 1,
                               !.counted = IF inside THEN @ + 1 ELSE @])
    /\ UNCHANGED <<m_FixedImage, m_NumberOfWorkUnits, m_Transform,
                   m_NumberOfPixelsCounted, metricPc, returned>>
    /\ UNCHANGED filterVars

\* GetValueAndDerivative from the return of
\* GetValueAndDerivativeMultiThreadedInitiate; called by GetDerivative, its
\* value goes to a local of GetDerivative, whose caller gets the derivative
GetValueAndDerivativeReturn ==
    /\ metricPc \in {"GetValueAndDerivative", "GetDerivative"}
    /\ AllChunksDone
    /\ m_NumberOfPixelsCounted' = PixelsCounted(Len(chunks))
    /\ returned' =
          IF TooManySamplesOutside(m_NumberOfPixelsCounted')
          THEN MetricException("Too many samples map outside moving image buffer")
          ELSE IF metricPc = "GetDerivative"
          THEN [call |-> "GetDerivative",
                parameters |-> m_Transform,
                derivative |->
                    [par \in 1..NumberOfParameters |->
                        DoubleDivide(SumMSEDerivative(m_PerThread.v, par, m_NumberOfWorkUnits),
                                     ToDouble(m_NumberOfPixelsCounted'))]]
          ELSE [call |-> "GetValueAndDerivative",
                parameters |-> m_Transform,
                value |-> DoubleDivide(SumMSE(m_PerThread.v, m_NumberOfWorkUnits),
                                       ToDouble(m_NumberOfPixelsCounted')),
                derivative |->
                    [par \in 1..NumberOfParameters |->
                        DoubleDivide(SumMSEDerivative(m_PerThread.v, par, m_NumberOfWorkUnits),
                                     ToDouble(m_NumberOfPixelsCounted'))]]
    /\ metricPc' = "Idle"
    /\ UNCHANGED <<m_FixedImage, m_NumberOfWorkUnits, m_PerThread, m_Transform, chunks>>
    /\ UNCHANGED filterVars

\* a filter as constructed, which the metric has nothing to do with
MetricInit ==
    /\ MetricConstructed
    /\ featurePoints = NullPtr
    /\ fixedImage = NullPtr
    /\ movingImage = NullPtr
    /\ m_BlockRadius = [a \in 1..ImageDimension |-> 2]
    /\ m_SearchRadius = [a \in 1..ImageDimension |-> 3]
    /\ numberOfWorkUnits = 1
    /\ m_PointsCount = 0
    /\ m_DisplacementsVectorsArray = NullPtr
    /\ m_SimilaritiesValuesArray = NullPtr
    /\ displacements = EmptyPointSet
    /\ similarities = EmptyPointSet
    /\ pc = "Idle"
    /\ workUnits = <<>>
    /\ history = <<>>
    /\ writes = [D |-> <<>>, S |-> <<>>]
    /\ reads = {}
    /\ staleDisplacements = {}

MetricNext ==
    \/ SetMetricFixedImage
    \/ Initialize
    \/ GetValue
    \/ \E threadId \in 0..(MaxWorkUnits - 1) : GetValueThreadProcessSample(threadId)
    \/ GetValueReturn
    \/ GetValueAndDerivative
    \/ GetDerivative
    \/ \E threadId \in 0..(MaxWorkUnits - 1) : GetValueAndDerivativeThreadProcessSample(threadId)
    \/ GetValueAndDerivativeReturn

MetricSpec == MetricInit /\ [][MetricNext]_vars

(***************************************************************************)
(* Properties.                                                             *)
(***************************************************************************)
\* the arrays the work units assign
ArrayNames == {"D", "S"}

\* the slots of the result arrays of the current execution
Slots == 0..(m_PointsCount - 1)

\* the threadIds of the dispatched work units
ThreadIds == 0..(Len(workUnits) - 1)

\* every dispatched work unit has computed its first and count
AllEntered ==
    /\ pc \in {"Running", "Joined", "Assembled"}
    /\ \A t \in ThreadIds : At(workUnits, t).pc # "start"

\* the indices [first, last) work unit t computed
RangeOf(t) ==
    { i \in Slots : At(workUnits, t).first <= i /\ i < At(workUnits, t).last }

\* the sum of the counts of the work units 0 .. t
RECURSIVE SumOfCounts(_)
SumOfCounts(t) ==
    IF t < 0 THEN 0
    ELSE SumOfCounts(t - 1) + (At(workUnits, t).last - At(workUnits, t).first)

\* C1: once the numberOfWorkUnits work units have computed their ranges
\* [first, first + count), the ranges are pairwise disjoint, contiguous in
\* threadId order, start at 0, end at m_PointsCount, their union is
\* 0 .. m_PointsCount-1 and their counts sum to m_PointsCount.
PartitionCoversAllPoints ==
    AllEntered =>
        /\ m_PointsCount >= 1
        /\ Len(workUnits) = numberOfWorkUnits
        /\ At(workUnits, 0).first = 0
        /\ \A t \in ThreadIds : At(workUnits, t).first <= At(workUnits, t).last
        /\ \A t \in ThreadIds :
              t + 1 < Len(workUnits) =>
                  At(workUnits, t).last = At(workUnits, t + 1).first
        /\ At(workUnits, Len(workUnits) - 1).last = m_PointsCount
        /\ \A t \in ThreadIds, u \in ThreadIds :
              t # u => RangeOf(t) \cap RangeOf(u) = {}
        /\ UNION { RangeOf(t) : t \in ThreadIds } = Slots
        /\ SumOfCounts(Len(workUnits) - 1) = m_PointsCount

\* C1 witness: two work units have computed their ranges for three points,
\* a count the work units do not divide
PartitionWithRemainderComputed ==
    /\ AllEntered
    /\ m_PointsCount = 3
    /\ Len(workUnits) = 2

\* C2: no slot of either result array is ever assigned twice; the arrays
\* have m_PointsCount slots; when the work units have joined, every slot of
\* both arrays has been assigned exactly once, by the one work unit whose
\* range contains it; every slot AfterThreadedGenerateData has read had been
\* assigned exactly once.
EverySlotWrittenOnceBeforeAssembly ==
    /\ \A a \in ArrayNames : \A i \in 1..Len(writes[a]) : Len(writes[a][i]) <= 1
    /\ pc \in {"Validated", "Running", "Joined"} =>
          /\ Len(m_DisplacementsVectorsArray.v) = m_PointsCount
          /\ Len(m_SimilaritiesValuesArray.v) = m_PointsCount
    /\ pc \in {"Joined", "Assembled"} =>
          \A a \in ArrayNames : \A i \in Slots :
              \E t \in ThreadIds :
                  /\ At(writes[a], i) = <<t>>
                  /\ { u \in ThreadIds : i \in RangeOf(u) } = {t}
    /\ \A r \in reads : Len(At(writes[r[2]], r[3])) = 1

\* C2 witness: AfterThreadedGenerateData has read the slots of three points
\* that two work units assigned
AssembledFromBothWorkUnits ==
    /\ pc = "Assembled"
    /\ m_PointsCount = 3
    /\ Len(workUnits) = 2
    /\ <<"AfterThreadedGenerateData", "S", 2>> \in reads

\* C3: a work unit assigns only slots of its own range [first, last), which
\* is the range of its threadId; no slot is assigned by two work units; no
\* slot is read by a work unit: the only reader is AfterThreadedGenerateData,
\* after the join.
WorkUnitsAccessOnlyOwnSlots ==
    /\ \A a \in ArrayNames : \A i \in 1..Len(writes[a]) :
          /\ \A k \in 1..Len(writes[a][i]) :
                LET t == writes[a][i][k]
                IN  /\ t \in ThreadIds
                    /\ (i - 1) \in RangeOf(t)
                    /\ (i - 1) \in Range(t, m_PointsCount, numberOfWorkUnits)
          /\ Cardinality({ writes[a][i][k] : k \in 1..Len(writes[a][i]) }) <= 1
    /\ \A r \in reads : r[1] = "AfterThreadedGenerateData" /\ pc = "Assembled"

\* C3 witness: while the work units run, two of them have assigned slots
TwoWorkUnitsHaveWritten ==
    /\ pc = "Running"
    /\ ~AllWorkUnitsDone
    /\ \E i \in Slots, j \in Slots :
          /\ At(writes.D, i) = <<0>>
          /\ At(writes.S, j) = <<1>>

\* what the search of each feature point yields from the images, the radii
\* and the point, which is all that a run with one work unit or with several
\* has to go by; the displacement of a point none of whose candidates is
\* accepted is Uninit: the inputs do not determine it
SingleWorkUnitResult ==
    [i \in 1..Len(featurePoints.v) |->
        MatchPoint(fixedImage.v, movingImage.v, m_BlockRadius, m_SearchRadius,
                   featurePoints.v[i])]

\* C4: whatever the number of work units, when they have joined the
\* displacement and similarity arrays hold, slot by slot, the values that the
\* images, feature points and radii determine, the same for one work unit
\* and for several, and the two output point sets are assembled from the
\* same values.
ResultIndependentOfWorkUnits ==
    /\ pc = "Joined" =>
          /\ m_DisplacementsVectorsArray.v =
                [i \in 1..Len(featurePoints.v) |-> SingleWorkUnitResult[i].displacement]
          /\ m_SimilaritiesValuesArray.v =
                [i \in 1..Len(featurePoints.v) |-> SingleWorkUnitResult[i].similarity]
    /\ pc = "Assembled" =>
          /\ displacements.data =
                [i \in 1..Len(featurePoints.v) |-> SingleWorkUnitResult[i].displacement]
          /\ similarities.data =
                [i \in 1..Len(featurePoints.v) |-> SingleWorkUnitResult[i].similarity]

\* the phases of a successful execution, in order
SuccessfulPhases ==
    <<"BeforeThreadedGenerateData", "SetSingleMethodAndExecute", "Join",
      "AfterThreadedGenerateData">>

\* C5: the phases of an execution occur in the order
\* BeforeThreadedGenerateData, dispatch, join, AfterThreadedGenerateData,
\* none of them twice; work units exist only from the dispatch on, one per
\* work unit of the filter; the join and the assembly are reached only with
\* every work unit finished; the execution is Failed only out of the
\* validation, with no work unit dispatched.
PhasesInOrder ==
    /\ pc = "GenerateData" => history = <<>>
    /\ pc = "Validated" => history = SubSeq(SuccessfulPhases, 1, 1)
    /\ pc = "Running" => history = SubSeq(SuccessfulPhases, 1, 2)
    /\ pc = "Joined" => history = SubSeq(SuccessfulPhases, 1, 3)
    /\ pc = "Assembled" => history = SuccessfulPhases
    /\ pc \in {"GenerateData", "Validated", "Failed"} => workUnits = <<>>
    /\ pc \in {"Running", "Joined", "Assembled"} => Len(workUnits) = numberOfWorkUnits
    /\ pc \in {"Joined", "Assembled"} => AllWorkUnitsDone
    /\ pc = "Failed" => history \in {<<>>, SubSeq(SuccessfulPhases, 1, 1)}

\* C5 witness: a successful execution with three work units has assembled
ThreeWorkUnitsAssembled ==
    /\ pc = "Assembled"
    /\ Len(workUnits) = 3
    /\ history = SuccessfulPhases

\* the feature point input is absent or has no points
NoFeaturePoints == featurePoints.null \/ Len(featurePoints.v) = 0

\* C6: an execution that enters GenerateData without feature points (the
\* input absent or empty) is ended by the exception of
\* BeforeThreadedGenerateData: it is Failed with BeforeThreadedGenerateData
\* its only phase, both result arrays still null and no work unit
\* dispatched.
NoFeaturePointsFailsInBefore ==
    (NoFeaturePoints /\ VerifyPreconditions /\ pc \notin {"Idle", "GenerateData"}) =>
        /\ pc = "Failed"
        /\ history = <<"BeforeThreadedGenerateData">>
        /\ m_PointsCount = 0
        /\ m_DisplacementsVectorsArray = NullPtr
        /\ m_SimilaritiesValuesArray = NullPtr
        /\ workUnits = <<>>

\* C6 witness: BeforeThreadedGenerateData has thrown for an absent feature
\* point input
FailedWithoutFeaturePointInput ==
    /\ pc = "Failed"
    /\ featurePoints.null
    /\ VerifyPreconditions
    /\ history = <<"BeforeThreadedGenerateData">>

\* C7: an execution started with the fixed or the moving image missing and
\* at least one feature point fails at once: it is Failed with no phase of
\* GenerateData run, no result array allocated and no work unit dispatched.
MissingImageFailsBeforeDispatch ==
    ((fixedImage.null \/ movingImage.null) /\ ~NoFeaturePoints /\ pc # "Idle") =>
        /\ pc = "Failed"
        /\ history = <<>>
        /\ m_DisplacementsVectorsArray = NullPtr
        /\ m_SimilaritiesValuesArray = NullPtr
        /\ workUnits = <<>>

\* C7 witness: an execution with feature points and a fixed image but no
\* moving image has failed
FailedWithoutMovingImage ==
    /\ pc = "Failed"
    /\ movingImage.null
    /\ ~fixedImage.null
    /\ ~NoFeaturePoints

\* an output point set holds n points and n data elements
HoldsExactly(output, n) == Len(output.points) = n /\ Len(output.data) = n

OutputsAlignedWithInputs ==
    [][(pc = "Joined" /\ pc' = "Assembled") =>
          /\ displacements'.points = featurePoints.v
          /\ similarities'.points = featurePoints.v
          /\ displacements'.data = m_DisplacementsVectorsArray.v
          /\ similarities'.data = m_SimilaritiesValuesArray.v
          /\ Len(featurePoints.v) = m_PointsCount
          /\ Len(m_DisplacementsVectorsArray.v) = m_PointsCount
          /\ Len(m_SimilaritiesValuesArray.v) = m_PointsCount]_vars

\* C9 witness: the outputs have been assembled for three feature points
\* whose displacements differ
AssembledThreePoints ==
    /\ pc = "Assembled"
    /\ Len(displacements.data) = 3
    /\ displacements.data[1] # displacements.data[3]
    /\ similarities.points = featurePoints.v

\* C10 as claimed: after AfterThreadedGenerateData both result arrays are
\* null and no member of the filter other than the configuration holds a
\* value of the execution: m_PointsCount is as constructed.
NoStateSurvivesExecution ==
    pc = "Assembled" =>
        /\ m_DisplacementsVectorsArray = NullPtr
        /\ m_SimilaritiesValuesArray = NullPtr
        /\ m_PointsCount = 0

\* C10 amended: after AfterThreadedGenerateData, and whenever the caller has
\* control, both result arrays are null; of the members an execution
\* assigns, m_PointsCount alone keeps its value: after
\* AfterThreadedGenerateData it is the number of feature points of that
\* execution, and no step changes it but the BeforeThreadedGenerateData of
\* the next execution.
ArraysReleasedPointsCountKept ==
    /\ [](/\ (pc = "Assembled" \/ CallerHasControl) =>
                /\ m_DisplacementsVectorsArray = NullPtr
                /\ m_SimilaritiesValuesArray = NullPtr
          /\ pc = "Assembled" =>
                /\ m_PointsCount = Len(featurePoints.v)
                /\ m_PointsCount >= 1)
    /\ [][m_PointsCount' # m_PointsCount =>
             (pc = "GenerateData" /\ pc' \in {"Validated", "Failed"})]_vars

\* C10 witness: AfterThreadedGenerateData has completed an execution of
\* three feature points
AssembledAndReleased ==
    /\ pc = "Assembled"
    /\ m_PointsCount = 3
    /\ m_SimilaritiesValuesArray = NullPtr

\* the work units that have computed their first and count
Entered == { t \in ThreadIds : At(workUnits, t).pc # "start" }

\* C11: a work unit w before the last one is assigned exactly
\* m_PointsCount \div W points starting at index w * (m_PointsCount \div W);
\* the last one, w = W - 1, is assigned that many plus m_PointsCount % W
\* points, starting at (W - 1) * (m_PointsCount \div W).
WorkUnitGetsBaseLastGetsRemainder ==
    pc \in {"Running", "Joined", "Assembled"} =>
        \A w \in Entered :
            /\ At(workUnits, w).first = w * (m_PointsCount \div numberOfWorkUnits)
            /\ w < numberOfWorkUnits - 1 =>
                  At(workUnits, w).last - At(workUnits, w).first =
                      m_PointsCount \div numberOfWorkUnits
            /\ w = numberOfWorkUnits - 1 =>
                  At(workUnits, w).last - At(workUnits, w).first =
                      (m_PointsCount \div numberOfWorkUnits)
                        + (m_PointsCount % numberOfWorkUnits)

\* C11 witness: three work units have computed their ranges for two points
\* and for no point more: the last one holds both
LastOfThreeHoldsTheRemainder ==
    /\ AllEntered
    /\ numberOfWorkUnits = 3
    /\ m_PointsCount = 2
    /\ At(workUnits, 2).first = 0
    /\ At(workUnits, 2).last = 2
    /\ At(workUnits, 1).last = At(workUnits, 1).first

\* the slots of array a that work unit t has assigned
SlotsWrittenBy(a, t) ==
    { i \in Slots : \E k \in 1..Len(At(writes[a], i)) : At(writes[a], i)[k] = t }

\* C12: with fewer points than work units no work unit is assigned an index
\* from m_PointsCount on, and the work units before the last one, which have
\* nothing to do, return without an iteration of the loop: they assign no
\* slot of either array.
IdleWorkUnitsWriteNothing ==
    (pc \in {"Running", "Joined", "Assembled"} /\ m_PointsCount < numberOfWorkUnits) =>
        \A w \in Entered :
            /\ At(workUnits, w).last <= m_PointsCount
            /\ \A i \in At(workUnits, w).first .. (At(workUnits, w).last - 1) :
                  i \in Slots
            /\ w < numberOfWorkUnits - 1 =>
                  /\ At(workUnits, w).first = At(workUnits, w).last
                  /\ At(workUnits, w).pc = "done"
                  /\ \A a \in ArrayNames : SlotsWrittenBy(a, w) = {}

\* C12 witness: one point and three work units: all have returned and the
\* only slot was assigned by the last work unit
TwoOfThreeWorkUnitsIdle ==
    /\ pc = "Joined"
    /\ m_PointsCount = 1
    /\ numberOfWorkUnits = 3
    /\ At(writes.D, 0) = <<2>>
    /\ At(writes.S, 0) = <<2>>

(***************************************************************************)
(* Properties of the search, stated on SearchSpec.                         *)
(***************************************************************************)
\* the work units that are in, or have left, the window loop of a point
InWindowLoop ==
    { t \in ThreadIds : "visited" \in DOMAIN At(workUnits, t) }

\* the work units whose window loop has visited a neighbourhood
HaveVisited ==
    { t \in InWindowLoop : Len(At(workUnits, t).visited) >= 1 }

\* what the latest iteration of the window loop of work unit t computed
LatestVisited(t) == At(workUnits, t).visited[Len(At(workUnits, t).visited)]

\* the offsets of the voxels of a 2-D block from its centre
BlockOffsets ==
    { <<dx, dy>> : dx \in (0 - m_BlockRadius[1])..m_BlockRadius[1],
                   dy \in (0 - m_BlockRadius[2])..m_BlockRadius[2] }

\* the pixels of the block of an image around a centre, by offset
BlockOf(image, centre) ==
    [o \in BlockOffsets |-> PixelAt(image, <<centre[1] + o[1], centre[2] + o[2]>>)]

\* the sum of the values of a function with a finite domain
RECURSIVE SumOf(_)
SumOf(f) ==
    IF DOMAIN f = {} THEN 0
    ELSE LET x == CHOOSE x \in DOMAIN f : TRUE
         IN  f[x] + SumOf([y \in (DOMAIN f) \ {x} |-> f[y]])

\* the offsets of the voxels of a 2-D block in the order the loop over the
\* voxels reads them: axis 1 varies fastest
OffsetsInOrder ==
    [k \in 1..Cardinality(BlockOffsets) |->
        <<((k - 1) % (1 + 2 * m_BlockRadius[1])) - m_BlockRadius[1],
          ((k - 1) \div (1 + 2 * m_BlockRadius[1])) - m_BlockRadius[2]>>]

\* the double sum f[1] + ... + f[k], added in this order
RECURSIVE DoubleSum(_, _)
DoubleSum(f, k) == IF k = 0 THEN DoubleZero ELSE DoubleAdd(DoubleSum(f, k - 1), f[k])

\* the voxels of a block (pixels by offset) as doubles, in the order read
BlockValues(B) ==
    [k \in 1..Cardinality(BlockOffsets) |-> ToDouble(B[OffsetsInOrder[k]])]

\* the sum of the voxels of a block
SumOfVoxelsOf(B) == DoubleSum(BlockValues(B), Cardinality(BlockOffsets))

\* the sum of the squares of the voxels of a block
SumOfSquaresOf(B) ==
    DoubleSum([k \in 1..Cardinality(BlockOffsets) |->
                  DoubleMultiply(BlockValues(B)[k], BlockValues(B)[k])],
              Cardinality(BlockOffsets))

\* the sum of the products of the voxels of two blocks at equal offsets
SumOfProductsOf(A, B) ==
    DoubleSum([k \in 1..Cardinality(BlockOffsets) |->
                  DoubleMultiply(BlockValues(A)[k], BlockValues(B)[k])],
              Cardinality(BlockOffsets))

\* the score the formulas give for two blocks A and B (pixels by offset),
\* every operation being the double operation
Score(A, B) ==
    LET count == (1 + 2 * m_BlockRadius[1]) * (1 + 2 * m_BlockRadius[2])
        sumA == SumOfVoxelsOf(A)
        sumB == SumOfVoxelsOf(B)
        sumSqA == SumOfSquaresOf(A)
        sumSqB == SumOfSquaresOf(B)
        cross == SumOfProductsOf(A, B)
        meanA == DoubleDivide(sumA, ToDouble(count))
        meanB == DoubleDivide(sumB, ToDouble(count))
        varA == DoubleSubtract(sumSqA,
                               DoubleMultiply(DoubleMultiply(ToDouble(count), meanA), meanA))
        varB == DoubleSubtract(sumSqB,
                               DoubleMultiply(DoubleMultiply(ToDouble(count), meanB), meanB))
        cov == DoubleSubtract(cross,
                              DoubleMultiply(DoubleMultiply(ToDouble(count), meanA), meanB))
    IN  [count |-> count, varA |-> varA, varB |-> varB, cov |-> cov,
         similarity |-> IF DoubleMultiply(varA, varB) # DoubleZero
                        THEN DoubleDivide(DoubleMultiply(cov, cov),
                                          DoubleMultiply(varA, varB))
                        ELSE DoubleZero]

\* every voxel of a block has the same value: the block has zero variance
IsConstant(B) == Cardinality({ B[o] : o \in DOMAIN B }) = 1

\* the two blocks the latest iteration of work unit t read: the one the
\* window iterator is at and the one the center iterator is at
WindowBlock(t) == BlockOf(fixedImage.v, LatestVisited(t).windowIndex)

CenterBlock(t) == BlockOf(movingImage.v, At(workUnits, t).movingIndex)

\* C13: the score of every candidate is cov^2 / (varA * varB) when
\* varA * varB # 0 and 0 otherwise, with the means, variances and covariance
\* derived as stated from the sums over the count = product of
\* (1 + 2 * BlockRadius[i]) voxels of the two blocks; the divisors count and
\* varA * varB are never zero where a division is made.
ScoreIsSquaredCorrelationOrZero ==
    \A t \in HaveVisited :
        LET score == Score(WindowBlock(t), CenterBlock(t))
        IN  /\ score.count = Cardinality(BlockOffsets)
            /\ score.count = NumberOfVoxelInBlock(m_BlockRadius)
            /\ score.count >= 1
            /\ LatestVisited(t).sim = score.similarity
            /\ DoubleMultiply(score.varA, score.varB) = DoubleZero =>
                  LatestVisited(t).sim = DoubleZero
            /\ DoubleMultiply(score.varA, score.varB) # DoubleZero =>
                  LatestVisited(t).sim =
                      DoubleDivide(DoubleMultiply(score.cov, score.cov),
                                   DoubleMultiply(score.varA, score.varB))

\* C13 witness: a candidate with a score strictly between 0 and 1 and a
\* candidate scored 0 for a zero variance have been visited for one point
ScoredBetweenZeroAndOneAndZero ==
    \E t \in HaveVisited :
        /\ LatestVisited(t).sim # DoubleZero
        /\ LatestVisited(t).sim # DoubleOne
        /\ m_BlockRadius = <<1, 1>>
        /\ \E k \in 1..Len(At(workUnits, t).visited) :
              /\ At(workUnits, t).visited[k].sim = DoubleZero
              /\ IsConstant(BlockOf(fixedImage.v, At(workUnits, t).visited[k].windowIndex))

\* the sum of the natural numbers f[x], of any size
RECURSIVE NatSumOf(_)
NatSumOf(f) ==
    IF DOMAIN f = {} THEN <<>>
    ELSE LET x == CHOOSE x \in DOMAIN f : TRUE
         IN  NatAdd(f[x], NatSumOf([y \in (DOMAIN f) \ {x} |-> f[y]]))

\* the exact sum of the products of the voxels of two blocks at equal offsets
ExactSumOfProducts(A, B) ==
    NatSumOf([o \in DOMAIN A |-> NatMul(Limbs(A[o]), Limbs(B[o]))])

\* the natural number m is below 2^MantissaBits: a double holds it exactly
FitsDouble(m) == NatCompare(m, NatShiftLeft(<<1>>, MantissaBits)) < 0

\* the double product x * y is the exact product
ProductIsExact(x, y) == NatBitLength(NatMul(x.mant, y.mant)) <= MantissaBits

\* the sums of a block are exact in double: its sum of squares, the greatest
\* of them, is below 2^MantissaBits
SumsAreExact(B) == FitsDouble(ExactSumOfProducts(B, B))

\* the arithmetic of the score of two blocks is exact up to the final
\* division: the sums are exact, the two means are whole numbers (the number
\* of voxels of a block is odd, so no other quotient by it is a double), by
\* which the variances and the covariance are whole numbers below
\* 2^MantissaBits, and the two products of the quotient are exact
ArithmeticIsExact(A, B) ==
    /\ SumsAreExact(A)
    /\ SumsAreExact(B)
    /\ SumOf(A) % Cardinality(DOMAIN A) = 0
    /\ SumOf(B) % Cardinality(DOMAIN B) = 0
    /\ ProductIsExact(Score(A, B).varA, Score(A, B).varB)
    /\ ProductIsExact(Score(A, B).cov, Score(A, B).cov)

\* C14: where the arithmetic is exact, the similarity computed for a pair of
\* blocks of integer pixels is at least 0 and at most 1, and it is exactly 0
\* when the voxels of either block are all equal (zero variance); the latter
\* needs no more than exact sums of the block that is constant.
SimilarityWithinZeroAndOneWhereExact ==
    \A t \in HaveVisited :
        /\ ArithmeticIsExact(WindowBlock(t), CenterBlock(t)) =>
              /\ DoubleGeq(LatestVisited(t).sim, DoubleZero)
              /\ DoubleGeq(DoubleOne, LatestVisited(t).sim)
        /\ (\/ IsConstant(WindowBlock(t)) /\ SumsAreExact(WindowBlock(t))
            \/ IsConstant(CenterBlock(t)) /\ SumsAreExact(CenterBlock(t))) =>
              LatestVisited(t).sim = DoubleZero

\* C14 witness: a candidate of two blocks of nine voxels, neither constant,
\* whose arithmetic is exact has a score strictly between 0 and 1, and a
\* candidate of the same point with a constant block was scored 0
ExactScoreBetweenZeroAndOne ==
    \E t \in HaveVisited :
        /\ m_BlockRadius = <<1, 1>>
        /\ ArithmeticIsExact(WindowBlock(t), CenterBlock(t))
        /\ ~IsConstant(WindowBlock(t))
        /\ ~IsConstant(CenterBlock(t))
        /\ DoubleLess(DoubleZero, LatestVisited(t).sim)
        /\ DoubleLess(LatestVisited(t).sim, DoubleOne)

\* C14 without the condition of exact arithmetic: the similarity computed
\* for any pair of blocks is at least 0 and at most 1, and exactly 0 when
\* the voxels of either block are all equal; the rounding of the double
\* operations breaks it.
SimilarityWithinZeroAndOne ==
    \A t \in HaveVisited :
        /\ DoubleGeq(LatestVisited(t).sim, DoubleZero)
        /\ DoubleGeq(DoubleOne, LatestVisited(t).sim)
        /\ (IsConstant(WindowBlock(t)) \/ IsConstant(CenterBlock(t))) =>
              LatestVisited(t).sim = DoubleZero
        /\ DoubleGeq(At(workUnits, t).similarity, DoubleZero)
        /\ DoubleGeq(DoubleOne, At(workUnits, t).similarity)

\* the slots of the similarities array that have been assigned
AssignedSimilarities ==
    { i \in 1..Len(m_SimilaritiesValuesArray.v) : m_SimilaritiesValuesArray.v[i] # Uninit }

\* C15: with BlockRadius 0 on every axis the block is a single voxel, every
\* candidate scores exactly 0 whatever the images hold, and the similarity
\* stored for every feature point, and put into the Similarities output, is
\* exactly 0.
SingleVoxelBlockScoresZero ==
    (\A a \in AxesOf(m_BlockRadius) : m_BlockRadius[a] = 0) =>
        /\ \A t \in InWindowLoop :
              /\ At(workUnits, t).similarity = DoubleZero
              /\ \A k \in 1..Len(At(workUnits, t).visited) :
                    At(workUnits, t).visited[k].sim = DoubleZero
        /\ pc \in {"Running", "Joined"} =>
              \A i \in AssignedSimilarities : m_SimilaritiesValuesArray.v[i] = DoubleZero
        /\ pc = "Assembled" =>
              /\ Len(similarities.data) = Len(featurePoints.v)
              /\ \A i \in 1..Len(similarities.data) : similarities.data[i] = DoubleZero

\* C15 witness: the similarities of all points were stored with BlockRadius
\* (0, 0) on two images whose pixels differ from voxel to voxel
SingleVoxelSearchJoined ==
    /\ pc = "Joined"
    /\ m_BlockRadius = <<0, 0>>
    /\ fixedImage.v = TextureImage
    /\ movingImage.v = ShiftedImage
    /\ Len(m_SimilaritiesValuesArray.v) = MaxPoints
    /\ \A i \in 1..MaxPoints : m_SimilaritiesValuesArray.v[i] = DoubleZero

\* the positions in the visiting order of work unit t's candidates that
\* have the greatest similarity among those visited
Greatest(t) ==
    { k \in 1..Len(At(workUnits, t).visited) :
        \A j \in 1..Len(At(workUnits, t).visited) :
            DoubleGeq(At(workUnits, t).visited[k].sim, At(workUnits, t).visited[j].sim) }

\* the last position of a non-empty set of positions
LastOf(positions) == CHOOSE k \in positions : \A j \in positions : j <= k

\* the displacement of a window index from a physical point
DisplacementOf(windowIndex, point) ==
    <<windowIndex[1] + fixedImage.v.origin[1] - point[1],
      windowIndex[2] + fixedImage.v.origin[2] - point[2]>>

\* C16: the candidates of a window are visited in raster order, axis 0
\* fastest; the similarity retained is the greatest of those visited and the
\* displacement retained is that of the last visited candidate with that
\* greatest similarity; these are the values stored for the point.
LastGreatestCandidateWins ==
    \A t \in HaveVisited :
        LET self == At(workUnits, t)
            width == 1 + 2 * m_SearchRadius[1]
            height == 1 + 2 * m_SearchRadius[2]
            winner == self.visited[LastOf(Greatest(t))]
        IN  /\ Len(self.visited) <= width * height
            /\ \A k \in 1..Len(self.visited) :
                  self.visited[k].windowIndex =
                      <<self.start[1] + ((k - 1) % width),
                        self.start[2] + ((k - 1) \div width)>>
            /\ self.similarity = winner.sim
            /\ self.displacement = DisplacementOf(winner.windowIndex, self.originalLocation)
            /\ (self.pc \in {"point", "done"} /\ pc \in {"Running", "Joined"}) =>
                  /\ Len(self.visited) = width * height
                  /\ At(m_DisplacementsVectorsArray.v, self.idx - 1) = self.displacement
                  /\ At(m_SimilaritiesValuesArray.v, self.idx - 1) = self.similarity

\* the block and the window of the point of work unit t lie inside an image
\* when they are placed at the given index of it
BlockAndWindowInside(image, index) ==
    \A a \in 1..2 :
        /\ index[a] - m_SearchRadius[a] - m_BlockRadius[a] >= 0
        /\ index[a] + m_SearchRadius[a] + m_BlockRadius[a] <= image.size[a] - 1

\* the latest candidate of work unit t is the one at zero offset from the
\* point's mapped index
AtZeroOffset(t) ==
    /\ LatestVisited(t).windowIndex = At(workUnits, t).fixedIndex
    /\ LatestVisited(t).windowIndex = At(workUnits, t).movingIndex

\* C17: when the two images are identical and the block and window of a point
\* lie inside the image, the candidate at zero offset from the point's mapped
\* index scores exactly 1, its cov^2 being equal to varA * varB, unless the
\* voxels of the block are all equal.
SelfMatchScoresOne ==
    \A t \in HaveVisited :
        ( /\ fixedImage.v = movingImage.v
          /\ BlockAndWindowInside(fixedImage.v, At(workUnits, t).fixedIndex)
          /\ AtZeroOffset(t)
          /\ ~IsConstant(CenterBlock(t)) ) =>
            /\ LatestVisited(t).sim = DoubleOne
            /\ LET score == Score(WindowBlock(t), CenterBlock(t))
               IN  /\ DoubleMultiply(score.cov, score.cov) =
                         DoubleMultiply(score.varA, score.varB)
                   /\ DoubleMultiply(score.varA, score.varB) # DoubleZero

\* the end-to-end scenario: two identical images of a linear ramp,
\* BlockRadius (1, 1), SearchRadius (2, 2), and every feature point with its
\* block and window inside the image
RampScenario ==
    /\ fixedImage.v = RampImage2D
    /\ movingImage.v = RampImage2D
    /\ m_BlockRadius = <<1, 1>>
    /\ m_SearchRadius = <<2, 2>>
    /\ \A i \in 1..Len(featurePoints.v) :
          BlockAndWindowInside(RampImage2D,
                               TransformPhysicalPointToIndex(RampImage2D, featurePoints.v[i]))

\* C18 as claimed: in the scenario every point's displacement is (0, 0) and
\* every similarity is 1.
RampDisplacementsAreZero ==
    (RampScenario /\ pc = "Joined") =>
        /\ \A i \in 1..m_PointsCount :
              m_DisplacementsVectorsArray.v[i] = <<0, 0>>
        /\ \A i \in 1..m_PointsCount :
              m_SimilaritiesValuesArray.v[i] = DoubleOne

\* C18 amended: in the scenario every candidate of every point scores
\* exactly 1, so every similarity is 1 and every point's displacement is that
\* of the last candidate in raster order, SearchRadius pixels along each
\* axis: (2, 2).
RampDisplacementsAreLastCandidate ==
    RampScenario =>
        /\ \A t \in InWindowLoop :
              \A k \in 1..Len(At(workUnits, t).visited) :
                  At(workUnits, t).visited[k].sim = DoubleOne
        /\ pc = "Joined" =>
              /\ \A i \in 1..m_PointsCount :
                    m_DisplacementsVectorsArray.v[i] =
                        <<m_SearchRadius[1], m_SearchRadius[2]>>
              /\ \A i \in 1..m_PointsCount :
                    m_SimilaritiesValuesArray.v[i] = DoubleOne
        /\ pc = "Assembled" =>
              /\ \A i \in 1..m_PointsCount : displacements.data[i] = <<2, 2>>
              /\ \A i \in 1..m_PointsCount : similarities.data[i] = DoubleOne

\* C18 witness: the scenario has run for all feature points and the outputs
\* are assembled
RampScenarioAssembled ==
    /\ RampScenario
    /\ pc = "Assembled"
    /\ Len(displacements.data) = MaxPoints
    /\ displacements.data[MaxPoints] = <<2, 2>>
    /\ similarities.data[MaxPoints] = DoubleOne

\* the indices of the box of size 1 + 2 * SearchRadius per axis centred on
\* an index
WindowAround(index) ==
    { <<x, y>> : x \in (index[1] - m_SearchRadius[1])..(index[1] + m_SearchRadius[1]),
                 y \in (index[2] - m_SearchRadius[2])..(index[2] + m_SearchRadius[2]) }

\* the window indices work unit t has visited for its point
VisitedIndices(t) ==
    { At(workUnits, t).visited[k].windowIndex : k \in 1..Len(At(workUnits, t).visited) }

\* the index of a physical point in an image, from the image's own origin
MappedIndex(image, point) ==
    <<point[1] - image.origin[1], point[2] - image.origin[2]>>

\* the window loop of work unit t has visited all its candidates
WindowDone(t) ==
    Len(At(workUnits, t).visited) = (1 + 2 * m_SearchRadius[1]) * (1 + 2 * m_SearchRadius[2])

\* C19 as claimed: the window of a point is the box of size
\* 1 + 2 * SearchRadius per axis centred on the index of the point in the
\* moving image.
WindowCentredOnMovingIndex ==
    \A t \in InWindowLoop :
        LET self == At(workUnits, t)
        IN  /\ VisitedIndices(t) \subseteq
                  WindowAround(MappedIndex(movingImage.v, self.originalLocation))
            /\ WindowDone(t) =>
                  VisitedIndices(t) =
                      WindowAround(MappedIndex(movingImage.v, self.originalLocation))

\* C19 amended: the point is mapped into each image with that image's own
\* mapping, and the window of the point is the box of size
\* 1 + 2 * SearchRadius per axis centred on the index of the point in the
\* fixed image; its candidates are indices of the fixed image.
WindowCentredOnFixedIndex ==
    \A t \in InWindowLoop :
        LET self == At(workUnits, t)
        IN  /\ self.fixedIndex = MappedIndex(fixedImage.v, self.originalLocation)
            /\ self.movingIndex = MappedIndex(movingImage.v, self.originalLocation)
            /\ VisitedIndices(t) \subseteq WindowAround(self.fixedIndex)
            /\ Cardinality(VisitedIndices(t)) = Len(self.visited)
            /\ WindowDone(t) =>
                  /\ VisitedIndices(t) = WindowAround(self.fixedIndex)
                  /\ Cardinality(VisitedIndices(t)) =
                        (1 + 2 * m_SearchRadius[1]) * (1 + 2 * m_SearchRadius[2])

\* C19 witness: the whole window of a point was visited on two images in
\* which the point has different indices
WindowVisitedWhereIndicesDiffer ==
    \E t \in InWindowLoop :
        /\ WindowDone(t)
        /\ m_SearchRadius = <<2, 2>>
        /\ At(workUnits, t).fixedIndex # At(workUnits, t).movingIndex
        /\ At(workUnits, t).movingIndex[2] # At(workUnits, t).fixedIndex[2]
        /\ VisitedIndices(t) = WindowAround(At(workUnits, t).fixedIndex)

\* C20 as claimed: for every candidate the block whose sums stay constant is
\* the block of the fixed image at the point's own index in it, and the block
\* that moves with the candidate is the block of the moving image at the
\* candidate.
ConstantBlockIsFromFixedImage ==
    \A t \in HaveVisited :
        LET self == At(workUnits, t)
            constant == BlockOf(fixedImage.v, self.fixedIndex)
            moves == BlockOf(movingImage.v, LatestVisited(t).windowIndex)
        IN  /\ LatestVisited(t).sums.fixedSum = SumOfVoxelsOf(constant)
            /\ LatestVisited(t).sums.fixedSumOfSquares = SumOfSquaresOf(constant)
            /\ LatestVisited(t).sums.movingSum = SumOfVoxelsOf(moves)
            /\ LatestVisited(t).sums.movingSumOfSquares = SumOfSquaresOf(moves)
            /\ LatestVisited(t).sums.covariance = SumOfProductsOf(constant, moves)

\* C20 amended: for every candidate the block whose sums stay constant is the
\* block of the moving image at the point's own index in the moving image,
\* and the block that moves with the candidate is the block of the fixed
\* image at the candidate, an index of the fixed image.
ConstantBlockIsFromMovingImage ==
    \A t \in HaveVisited :
        LET self == At(workUnits, t)
            constant == BlockOf(movingImage.v, MappedIndex(movingImage.v, self.originalLocation))
            moves == BlockOf(fixedImage.v, LatestVisited(t).windowIndex)
        IN  /\ LatestVisited(t).sums.movingSum = SumOfVoxelsOf(constant)
            /\ LatestVisited(t).sums.movingSumOfSquares = SumOfSquaresOf(constant)
            /\ LatestVisited(t).sums.fixedSum = SumOfVoxelsOf(moves)
            /\ LatestVisited(t).sums.fixedSumOfSquares = SumOfSquaresOf(moves)
            /\ LatestVisited(t).sums.covariance = SumOfProductsOf(moves, constant)
            /\ LatestVisited(t).sums.movingSum = self.visited[1].sums.movingSum
            /\ LatestVisited(t).sums.movingSumOfSquares =
                  self.visited[1].sums.movingSumOfSquares

\* C20 witness: on two different images two candidates of a point have been
\* visited whose sums over the fixed image differ
FixedSumMovedWithCandidate ==
    \E t \in HaveVisited :
        /\ fixedImage.v = TextureImage
        /\ movingImage.v = ShiftedImage
        /\ m_BlockRadius = <<1, 1>>
        /\ Len(At(workUnits, t).visited) >= 2
        /\ LatestVisited(t).sums.fixedSum # At(workUnits, t).visited[1].sums.fixedSum
        /\ LatestVisited(t).sums.movingSum = At(workUnits, t).visited[1].sums.movingSum
        /\ LatestVisited(t).sums.movingSum # DoubleZero

(***************************************************************************)
(* Properties of whole executions.                                         *)
(***************************************************************************)
\* an execution is under way: GenerateData has been entered and has not
\* returned or thrown
Executing == pc \in {"GenerateData", "Validated", "Running", "Joined", "Assembled"}

\* C21: no step of an execution, from its start to its return or its
\* exception, changes the fixed image, the moving image, the feature point
\* sequence or the two radii: only the caller changes them, between
\* executions.
ExecutionLeavesInputsUnchanged ==
    [][(Executing \/ Executing') =>
          /\ fixedImage' = fixedImage
          /\ movingImage' = movingImage
          /\ featurePoints' = featurePoints
          /\ m_BlockRadius' = m_BlockRadius
          /\ m_SearchRadius' = m_SearchRadius]_vars

\* C21 witness: an execution on three feature points has gone through
\* validation, all work unit steps and assembly, and the feature points are
\* the three points in their order
AssembledWithInputsInPlace ==
    /\ pc = "Assembled"
    /\ history = SuccessfulPhases
    /\ featurePoints = Ptr(PointSet(3))
    /\ fixedImage = Ptr(RampImage)
    /\ movingImage = Ptr(BumpImage)
    /\ displacements.points = PointSet(3)

\* the number of candidates of a window, as a product over the axes
CandidatesPerPoint == (1 + 2 * m_SearchRadius[1]) * (1 + 2 * m_SearchRadius[2])

\* C22: with every work unit and the calling thread scheduled fairly, an
\* execution that has passed validation reaches assembly; no step after the
\* dispatch throws or returns early; and a work unit leaves the window loop
\* of a point only after exactly (1 + 2 * SearchRadius[0]) *
\* (1 + 2 * SearchRadius[1]) candidates, never more.
ValidatedExecutionCompletes ==
    /\ (pc = "Validated") ~> (pc = "Assembled")
    /\ [][(pc \in {"Running", "Joined"}) => (pc' \in {"Running", "Joined", "Assembled"})]_vars
    /\ [](\A t \in InWindowLoop :
             /\ Len(At(workUnits, t).visited) <= CandidatesPerPoint
             /\ (At(workUnits, t).pc \in {"point", "done"}) =>
                   (Len(At(workUnits, t).visited) = CandidatesPerPoint))

\* C22 witness: two work units have each visited the nine candidates of
\* every point of theirs and the execution has been assembled
TwoSearchesAssembled ==
    /\ pc = "Assembled"
    /\ numberOfWorkUnits = 2
    /\ \A t \in 0..1 :
          /\ At(workUnits, t).pc = "done"
          /\ Len(At(workUnits, t).visited) = 9
    /\ Len(displacements.data) = m_PointsCount

\* what the search for the feature point of slot i yields from the inputs
Matched(i) ==
    MatchPoint(fixedImage.v, movingImage.v, m_BlockRadius, m_SearchRadius,
               At(featurePoints.v, i))

\* C23: in whatever order the work units take their steps, a step that
\* changes slot i of a result array assigns a slot not yet assigned, and
\* assigns the value that the inputs and the point of slot i determine, not
\* one that depends on what was processed before; so every interleaving ends
\* in the same two arrays.
SlotValueDependsOnInputsOnly ==
    [][(pc = "Running" /\ pc' = "Running") =>
          \A i \in 0..(m_PointsCount - 1) :
              /\ (At(m_DisplacementsVectorsArray'.v, i) # At(m_DisplacementsVectorsArray.v, i)) =>
                    /\ At(m_DisplacementsVectorsArray.v, i) = Uninit
                    /\ At(m_DisplacementsVectorsArray'.v, i) = Matched(i).displacement
              /\ (At(m_SimilaritiesValuesArray'.v, i) # At(m_SimilaritiesValuesArray.v, i)) =>
                    /\ At(m_SimilaritiesValuesArray.v, i) = Uninit
                    /\ At(m_SimilaritiesValuesArray'.v, i) = Matched(i).similarity]_vars

\* the number of callbacks the threader has run in this execution
Dispatched == Len(workUnits)

\* slot i of both result arrays has never been assigned
NeverAssigned(i) ==
    /\ At(m_DisplacementsVectorsArray.v, i) = Uninit
    /\ At(m_SimilaritiesValuesArray.v, i) = Uninit
    /\ At(writes.D, i) = <<>>
    /\ At(writes.S, i) = <<>>

\* C24: the range of a work unit comes from the filter's number of work
\* units W.  When the threader has run the callbacks of the ids 0 .. K-1
\* and they have returned, every slot is assigned if K = W, and if K < W
\* exactly the slots (N div W) * K .. N-1 have never been assigned; assembly
\* still reads all N slots and puts N entries into each output.
CoverageNeedsEveryWorkUnitId ==
    /\ pc = "Joined" =>
          \A i \in 0..(m_PointsCount - 1) :
              NeverAssigned(i) <=>
                  /\ Dispatched < numberOfWorkUnits
                  /\ i >= (m_PointsCount \div numberOfWorkUnits) * Dispatched
    /\ pc = "Joined" =>
          \A i \in 0..(m_PointsCount - 1) :
              \/ NeverAssigned(i)
              \/ /\ Len(At(writes.D, i)) = 1
                 /\ Len(At(writes.S, i)) = 1
    /\ pc = "Assembled" =>
          /\ Len(displacements.data) = m_PointsCount
          /\ Len(similarities.data) = m_PointsCount
          /\ \A a \in {"D", "S"} : \A i \in 0..(m_PointsCount - 1) :
                <<"AfterThreadedGenerateData", a, i>> \in reads

\* C24 witness: the filter has three work units and three points, the
\* threader ran two callbacks, slot 2 was never assigned, and the outputs
\* hold three entries, the last read from the unassigned slot
AssembledWithUnassignedSlot ==
    /\ pc = "Assembled"
    /\ numberOfWorkUnits = 3
    /\ m_PointsCount = 3
    /\ Dispatched = 2
    /\ At(writes.D, 1) = <<1>>
    /\ At(writes.D, 2) = <<>>
    /\ Len(displacements.data) = 3
    /\ displacements.data[3] = <<9>>

\* the number of points work unit t computed for itself
CountOf(t) == At(workUnits, t).last - At(workUnits, t).first

\* C25: with fewer points than work units every work unit before the last
\* has the empty range at index 0 and the last one has the range 0 .. N-1
\* and, once joined, has assigned every slot; whatever N and W are, the last
\* work unit has at least as many points as any other and at most W-1 more.
LastWorkUnitTakesTheExcess ==
    pc \in {"Running", "Joined", "Assembled"} =>
        /\ m_PointsCount < numberOfWorkUnits =>
              \A w \in Entered :
                  /\ At(workUnits, w).first = 0
                  /\ At(workUnits, w).last =
                        IF w = numberOfWorkUnits - 1 THEN m_PointsCount ELSE 0
        /\ (m_PointsCount < numberOfWorkUnits /\ pc = "Joined") =>
              \A a \in ArrayNames :
                  SlotsWrittenBy(a, numberOfWorkUnits - 1) = Slots
        /\ (numberOfWorkUnits - 1) \in Entered =>
              \A w \in Entered :
                  /\ CountOf(numberOfWorkUnits - 1) - CountOf(w) >= 0
                  /\ CountOf(numberOfWorkUnits - 1) - CountOf(w) <= numberOfWorkUnits - 1

\* C25 witness: two points and three work units: the first two work units
\* had nothing to do and the last one has assigned both slots, two points
\* more than either of the others
LastOfThreeDidBothPoints ==
    /\ pc = "Joined"
    /\ m_PointsCount = 2
    /\ numberOfWorkUnits = 3
    /\ CountOf(0) = 0
    /\ CountOf(1) = 0
    /\ CountOf(2) = 2
    /\ At(writes.D, 0) = <<2>>
    /\ At(writes.S, 1) = <<2>>

\* the displacements of the candidates of the window of a physical point
WindowDisplacements(point) ==
    { DisplacementOf(w, point) : w \in WindowAround(MappedIndex(fixedImage.v, point)) }

\* C26: every candidate scores at least 0, the running best starts at 0, so
\* the first candidate of a window in raster order is accepted; from then
\* on the displacement a work unit holds is that of a candidate of the
\* window, and what is stored in the displacements array is never the
\* unassigned local but the displacement of a candidate of the point's own
\* window.
FirstCandidateAlwaysAccepted ==
    /\ \A t \in HaveVisited :
          LET self == At(workUnits, t)
          IN  /\ \A k \in 1..Len(self.visited) : DoubleGeq(self.visited[k].sim, DoubleZero)
              /\ self.visited[1].windowIndex = self.start
              /\ self.visited[1].displacement =
                    DisplacementOf(self.start, self.originalLocation)
              /\ self.displacement # Uninit
              /\ self.displacement \in WindowDisplacements(self.originalLocation)
    /\ pc \in {"Running", "Joined"} =>
          \A i \in 0..(m_PointsCount - 1) :
              \/ /\ At(m_DisplacementsVectorsArray.v, i) = Uninit
                 /\ At(writes.D, i) = <<>>
                 /\ pc = "Running"
              \/ At(m_DisplacementsVectorsArray.v, i)
                    \in WindowDisplacements(At(featurePoints.v, i))

\* the score of the candidate at window index w for a physical point, from
\* the pixels of the two images
ScoreAt(w, point) ==
    Score(BlockOf(fixedImage.v, w),
          BlockOf(movingImage.v, MappedIndex(movingImage.v, point))).similarity

\* C27: once the work units have returned, the similarity stored for a point
\* is the score of a candidate of its window and is not less than the score
\* of any of the (1 + 2 * SearchRadius[0]) * (1 + 2 * SearchRadius[1])
\* candidates, and the displacement stored is that of a candidate whose score
\* is the stored similarity.
StoredSimilarityIsWindowMaximum ==
    pc = "Joined" =>
        \A i \in 0..(m_PointsCount - 1) :
            LET point == At(featurePoints.v, i)
                candidates == WindowAround(MappedIndex(fixedImage.v, point))
                scores == [w \in candidates |-> ScoreAt(w, point)]
                stored == At(m_SimilaritiesValuesArray.v, i)
            IN  /\ Cardinality(candidates) = CandidatesPerPoint
                /\ \A w \in candidates : DoubleGeq(stored, scores[w])
                /\ \E w \in candidates :
                      /\ scores[w] = stored
                      /\ At(m_DisplacementsVectorsArray.v, i) = DisplacementOf(w, point)

\* every candidate of the finished window of work unit t scored the same
AllCandidatesTied(t) ==
    /\ WindowDone(t)
    /\ \A j, k \in 1..Len(At(workUnits, t).visited) :
          At(workUnits, t).visited[j].sim = At(workUnits, t).visited[k].sim

\* the last index of the window of work unit t in raster order
MaximalCorner(t) ==
    <<At(workUnits, t).start[1] + 2 * m_SearchRadius[1],
      At(workUnits, t).start[2] + 2 * m_SearchRadius[2]>>

\* C28: when all candidates of a window score the same, the candidate kept
\* is the last one visited, at window start + 2 * SearchRadius, which is the
\* index of the point in the fixed image + SearchRadius; the displacement
\* kept and stored for the point is that of this corner of the window, and
\* it is not zero when SearchRadius is not zero.
TiedWindowYieldsMaximalCorner ==
    \A t \in InWindowLoop :
        AllCandidatesTied(t) =>
            LET self == At(workUnits, t)
            IN  /\ LatestVisited(t).windowIndex = MaximalCorner(t)
                /\ MaximalCorner(t) = <<self.fixedIndex[1] + m_SearchRadius[1],
                                        self.fixedIndex[2] + m_SearchRadius[2]>>
                /\ self.displacement = DisplacementOf(MaximalCorner(t), self.originalLocation)
                /\ (m_SearchRadius # <<0, 0>>) => (self.displacement # <<0, 0>>)
                /\ (pc \in {"Running", "Joined"} /\ self.pc \in {"point", "done"}) =>
                      At(m_DisplacementsVectorsArray.v, self.idx - 1) = self.displacement

InsideSamples(parameters) ==
    { k \in 0..(Len(FixedImageSamples) - 1) : MapsInside(parameters, k) }

\* the difference of the moving and the fixed value of a sample, and its
\* magnitude
DiffOf(parameters, k) == MovingImageValue(parameters, k) - At(FixedImageSamples, k)

MagnitudeOf(n) == IF n < 0 THEN -n ELSE n

\* the exact sum of the squared differences of a set of samples, a natural
\* number of any size
RECURSIVE ExactSumOfSquares(_, _)
ExactSumOfSquares(parameters, samples) ==
    IF samples = {} THEN <<>>
    ELSE LET k == CHOOSE k \in samples : TRUE
         IN  NatAdd(NatMul(Limbs(MagnitudeOf(DiffOf(parameters, k))),
                           Limbs(MagnitudeOf(DiffOf(parameters, k)))),
                    ExactSumOfSquares(parameters, samples \ {k}))

\* the squared differences of the samples mapped inside add up exactly in
\* double in whatever order and grouping: they are integers whose sum is
\* below 2^MantissaBits
SquaresAddExactly(parameters) ==
    NatCompare(ExactSumOfSquares(parameters, InsideSamples(parameters)),
               NatShiftLeft(<<1>>, MantissaBits)) < 0

\* the mean of the squared differences over the samples mapped inside, where
\* they add up exactly: the exact sum divided in double by the count
MeanSquares(parameters) ==
    DoubleDivide(RoundToDouble(1, ExactSumOfSquares(parameters, InsideSamples(parameters)), 0),
                 ToDouble(Cardinality(InsideSamples(parameters))))

\* the derivative of the mean by the parameter of the translation; the terms
\* of the images here are machine integers and so is their sum
MeanSquaresDerivative(parameters) ==
    DoubleDivide(ToDouble(SumOf([k \in InsideSamples(parameters) |->
                     2 * DiffOf(parameters, k) * MovingImageGradientValue(parameters, k)])),
                 ToDouble(Cardinality(InsideSamples(parameters))))

\* what a work unit that starts from 0 and takes the samples begin .. end - 1
\* in their order has in m_MSE and in m_MSEDerivative[par]: the double sums
\* of the samples mapped inside
RECURSIVE SequentialMSE(_, _, _)
SequentialMSE(parameters, begin, end) ==
    IF end <= begin THEN DoubleZero
    ELSE IF MapsInside(parameters, end - 1)
    THEN AddSquare(SequentialMSE(parameters, begin, end - 1),
                   Difference(MovingImageValue(parameters, end - 1),
                              At(FixedImageSamples, end - 1)))
    ELSE SequentialMSE(parameters, begin, end - 1)

RECURSIVE SequentialMSEDerivative(_, _, _)
SequentialMSEDerivative(parameters, begin, end) ==
    IF end <= begin THEN DoubleZero
    ELSE IF MapsInside(parameters, end - 1)
    THEN AddDerivativeTerm(SequentialMSEDerivative(parameters, begin, end - 1),
                           Difference(MovingImageValue(parameters, end - 1),
                                      At(FixedImageSamples, end - 1)),
                           MovingImageGradientValue(parameters, end - 1))
    ELSE SequentialMSEDerivative(parameters, begin, end - 1)

\* the first sample of the chunk of work unit t (1-based) in the split c
ChunkBegin(c, t) == IF t = 1 THEN 0 ELSE c[t - 1].end

\* a call that gets as far as the dispatch has set m_MSE of every work unit
\* to 0, and the derivative call every m_MSEDerivative as well
ZeroedBeforeDispatch ==
    (metricPc = "Idle" /\ metricPc' \notin {"Idle", "Killed"}) =>
        \A t \in 1..m_NumberOfWorkUnits :
            /\ m_PerThread'.v[t].m_MSE = DoubleZero
            /\ metricPc' \in {"GetValueAndDerivative", "GetDerivative"} =>
                  \A par \in 1..NumberOfParameters :
                      m_PerThread'.v[t].m_MSEDerivative[par] = DoubleZero

\* a step of a work unit changes the entry of m_PerThread and the chunk of
\* that work unit only
AddsToOwnEntryOnly ==
    (metricPc # "Idle" /\ metricPc' = metricPc) =>
        \E t \in 1..m_NumberOfWorkUnits :
            /\ chunks'[t] # chunks[t]
            /\ \A u \in (1..m_NumberOfWorkUnits) \ {t} :
                  /\ m_PerThread'.v[u] = m_PerThread.v[u]
                  /\ chunks'[u] = chunks[u]

\* a call that returns a value returns the sum of the m_MSE of all work units
\* divided by m_NumberOfPixelsCounted, the number of samples mapped inside
\* under the parameters of this call
ReturnsSumOverPixelsCounted ==
    (metricPc # "Idle" /\ metricPc' = "Idle" /\ returned'.call # "exception") =>
        /\ returned'.call = metricPc
        /\ m_NumberOfPixelsCounted' = Cardinality(InsideSamples(m_Transform))
        /\ returned'.call # "GetDerivative" =>
              returned'.value =
                  DoubleDivide(SumMSE(m_PerThread.v, m_NumberOfWorkUnits),
                               ToDouble(m_NumberOfPixelsCounted'))
        /\ returned'.call # "GetValue" =>
              \A par \in 1..NumberOfParameters :
                  returned'.derivative[par] =
                      DoubleDivide(SumMSEDerivative(m_PerThread.v, par, m_NumberOfWorkUnits),
                                   ToDouble(m_NumberOfPixelsCounted'))

\* during a call the accumulators of a work unit hold the samples of this
\* call that the work unit has taken so far, added up in double from 0 in
\* their order, and nothing of an earlier call
NothingFromEarlierCalls ==
    metricPc' \in {"GetValue", "GetValueAndDerivative", "GetDerivative"} =>
        \A t \in 1..m_NumberOfWorkUnits' :
            /\ m_PerThread'.v[t].m_MSE =
                  SequentialMSE(m_Transform', ChunkBegin(chunks', t), chunks'[t].next)
            /\ metricPc' # "GetValue" =>
                  \A par \in 1..NumberOfParameters :
                      m_PerThread'.v[t].m_MSEDerivative[par] =
                          SequentialMSEDerivative(m_Transform', ChunkBegin(chunks', t),
                                                  chunks'[t].next)

\* the value returned is the one a single work unit taking all the samples
\* in their order returns
ValueOfSingleWorkUnit ==
    (metricPc # "Idle" /\ metricPc' = "Idle"
        /\ returned'.call \in {"GetValue", "GetValueAndDerivative"}) =>
        returned'.value =
            DoubleDivide(SequentialMSE(m_Transform, 0, Len(FixedImageSamples)),
                         ToDouble(m_NumberOfPixelsCounted'))

\* C30 as claimed: a call of GetValue or GetValueAndDerivative (made directly
\* or through GetDerivative) that gets as far as the dispatch has set m_MSE
\* of every work unit to 0, and the derivative call every m_MSEDerivative as
\* well; a step of a work unit changes the entry of m_PerThread of that work
\* unit only; a call that returns a value returns the sum of the m_MSE of
\* all work units divided by m_NumberOfPixelsCounted; nothing of an earlier
\* call is in the accumulators; and the value returned does not depend on
\* how the samples were given to the work units: it is the value that a
\* single work unit returns.
ResultIndependentOfSplit ==
    [][/\ ZeroedBeforeDispatch
       /\ AddsToOwnEntryOnly
       /\ ReturnsSumOverPixelsCounted
       /\ NothingFromEarlierCalls
       /\ ValueOfSingleWorkUnit]_vars

\* C30 amended: as claimed up to the last clause; the value returned is the
\* double sum, in work unit order, of the per-work-unit double sums, divided
\* by the count, so it is the same for every split where the squared
\* differences add up exactly (it is then the exact mean, rounded once by
\* the division), and the derivative likewise.  A call on a metric that was
\* never initialized has no accumulators and never reaches the dispatch.
AccumulatorsFreshAndOwn ==
    [][/\ ZeroedBeforeDispatch
       /\ AddsToOwnEntryOnly
       /\ ReturnsSumOverPixelsCounted
       /\ NothingFromEarlierCalls
       /\ (metricPc # "Idle" /\ metricPc' = "Idle" /\ returned'.call # "exception") =>
             /\ (returned'.call # "GetDerivative" /\ SquaresAddExactly(m_Transform)) =>
                   returned'.value = MeanSquares(m_Transform)
             /\ returned'.call # "GetValue" =>
                   \A par \in 1..NumberOfParameters :
                       returned'.derivative[par] = MeanSquaresDerivative(m_Transform)]_vars

\* C30 witness: GetValue has returned for parameter 0, where the squared
\* differences are 2^54, 1, 1, 1; three work units shared the samples and
\* two of them accumulated; the value is not the one a single work unit
\* returns; and a work unit still holds the derivative an earlier
\* GetValueAndDerivative call accumulated
ValueReturnedAfterEarlierCall ==
    /\ metricPc = "Idle"
    /\ returned.call = "GetValue"
    /\ returned.parameters = 0
    /\ returned.value # DoubleDivide(SequentialMSE(0, 0, Len(FixedImageSamples)), ToDouble(4))
    /\ m_NumberOfWorkUnits = 3
    /\ Cardinality({ t \in 1..3 : DoubleLess(DoubleZero, m_PerThread.v[t].m_MSE) }) >= 2
    /\ \E t \in 1..3 : m_PerThread.v[t].m_MSEDerivative[1] \notin {DoubleZero, ToDouble(5)}

=============================================================================
